---- MODULE Spec2Model ----
(***************************************************************************)
(* Cluster frame synchronisation of SGCT: the per-frame barrier of the     *)
(* render loop (Engine::frameLockPreStage / frameLockPostStage), the       *)
(* shared-state channel (encode on the master, decode on the clients) and  *)
(* the remote application's shared variables.                              *)
(*                                                                         *)
(* One master (node 0) and two clients (nodes 1 and 2) each run the render *)
(* loop of Engine::render.  Time is counted in seconds; when no node has a *)
(* step to take it advances by TickSeconds for every node that waits in    *)
(* the barrier.                                                            *)
(***************************************************************************)
EXTENDS Integers, Sequences, FiniteSets, TLC

(***************************************************************************)
(* Bounds of the model.                                                    *)
(***************************************************************************)
MaxFrame == 2
TickSeconds == 30
MaxFaults == 2

(***************************************************************************)
(* Program constants.                                                      *)
(***************************************************************************)
DefaultSyncTimeout == 60
SizeofDouble == 8
SizeofFloat == 4
SizeofBool == 1
ByteRange == 256
DefaultSizeFactor == 50

\* The cluster: one master and two clients.
Master == 0
Clients == {1, 2}
Nodes == {Master} \cup Clients

\* enum SyncBarrier state
SyncBarrier == {"Idle", "AwaitingPeers", "Ready", "TimedOut"}

\* The members of struct Engine::Statistics: five history arrays; nothing
\* else is exposed by Engine::statistics().
StatisticsFields ==
    {"frametimes", "drawTimes", "syncTimes", "loopTimeMin", "loopTimeMax"}

\* The parameters setSyncParameters is called with in the model: the defaults,
\* or no message and half the default timeout.
SyncParameterChoices ==
    {<<TRUE, DefaultSyncTimeout>>, <<FALSE, DefaultSyncTimeout \div 2>>}

VARIABLES
    connected,          \* connected[c]: client c has a connection to the master
    pc,                 \* pc[n]: position of node n's render thread in the frame
    barrier,            \* barrier[n]: SyncBarrier state of node n
    waited,             \* waited[n]: seconds spent in the current AwaitingPeers
    _syncTimeout,       \* Engine::_syncTimeout (seconds)
    _printSyncMessage,  \* Engine::_printSyncMessage
    _frameCounter,      \* _frameCounter[n]: Engine::_frameCounter of node n
    _shouldTerminate,   \* _shouldTerminate[n]: Engine::_shouldTerminate of node n
    inbox,              \* inbox[c]: frame states sent to client c, not yet decoded
    swapReady,          \* swapReady[n]: number of frames n signalled ready-to-swap for
    app,                \* app[n]: currentTime, sizeFactor, showGraph of node n
    applied,            \* applied[c]: frame numbers of the states client c applied
    errorLog,           \* errorLog[c]: number of decode errors client c reported
    faults              \* number of connection losses, terminate calls and
                        \* length-mismatched buffers so far

\* The shared-state codec on its own: one encode of a state and the decode of
\* the bytes it produced.
VARIABLES
    codecApp,           \* the application whose callbacks run: "remote", "viewer"
    codecPhase,         \* "off", "input", "encoded", "decoded"
    codecState,         \* the state the master encodes
    codecBytes,         \* the buffer encode produced
    codecResult         \* what decode returned: read position and state

\* The bulk data transfer of the openvrfulldomeviewer application: the master
\* sends images to the clients, the clients acknowledge them.
VARIABLES
    linked,             \* linked[c]: the transfer connection to client c is up
    statusLog,          \* statusLog[c]: the values myDataTransferStatus was called with
    linkChanges,        \* number of connects and disconnects so far
    imagePaths,         \* number of images dropped on the master's window
    transfer,           \* the drop callback asks the loader thread to transfer
    serverUploadDone,   \* the master has uploaded its textures
    clientsUploadDone,  \* the clients have acknowledged the last package
    serverUploadCount,  \* images of the last drop
    counter,            \* static counter of myDataTransferAcknowledge
    lastPackage,        \* lastPackage[n]: last package id node n sent or received
    texIds,             \* number of textures of the master
    transImages,        \* number of images the master read, not yet uploaded
    numSyncedTex,       \* textures the cluster has in common
    texIndex,           \* index of the texture to draw
    workerPc,           \* threadWorker: "idle", "started", "upload"
    toClient,           \* toClient[c]: package ids in flight to client c
    toMaster,           \* toMaster[c]: acknowledgements in flight from client c
    ackDue,             \* ackDue[c]: id client c has handled and not yet
                        \* acknowledged, or -1
    handled,            \* handled[c]: ids myDataTransferDecoder was called with
    ackedBy,            \* ackedBy[c]: ids myDataTransferAcknowledge was called with
    completedIds,       \* ids for which clientsUploadDone was set
    sentTo,             \* sentTo[c]: ids that were sent to client c
    unread,             \* ids of the images whose file could not be read
    batchLog            \* the batches the loader thread started: the ids handed to
                        \* transferDataBetweenNodes, the number of textures before,
                        \* and whether myPreSyncFun has consumed the batch

\* The tracking manager: the main thread and the sampling thread.
VARIABLES
    _trackers,          \* TrackingManager::_trackers: name and number of devices
                        \* of every tracker
    gTrackers,          \* gTrackers: number of VRPN pointers of every tracker
    enabled,            \* the devices are enabled
    _head,              \* TrackingManager::_head is bound to the head device
    _headUser,          \* TrackingManager::_headUser: the names of tracker and
                        \* device that the head user gives
    _isRunning,         \* TrackingManager::_isRunning
    _samplingTime,      \* TrackingManager::_samplingTime: passes timed so far
    _samplingThread,    \* TrackingManager::_samplingThread is set
    mutexTracking,      \* owner of mutex::Tracking: "none", "main", "sampler"
    deviceLock,         \* owner of the lock of the head device's state
    mainPc,             \* position of the main thread
    mainPhase,          \* "config", "running": before, after startSampling
    samplerPc,          \* position of the sampling thread in samplingLoop
    samplerI,           \* samplingLoop: i
    samplerJ,           \* samplingLoop: j
    isRunningLocal,     \* samplingLoop: const bool isRunning
    polls,              \* number of poll results the head sensor delivered
    sample,             \* the poll result updateTracker is called with
    transform,          \* the head device's sensor position and rotation
    snapshot,           \* what the main thread read of the transform
    headTransform,      \* the transform the head user was given
    passesAfterStop,    \* passes begun after the destructor cleared _isRunning
    passLog             \* the devices the current pass has come to, and
                        \* whether it polled them

VARIABLES
    SGCT_HAS_VRPN,      \* the library was built with VRPN support
    logged,             \* the warnings and errors the tracking manager logged
    returned,           \* the last call that returned at once, and its value
    pending             \* applyTracker: the configuration that is being applied

VARIABLES
    stage,              \* the stage of the frame the main thread ran last
    frame,              \* number of frames whose buffers were swapped
    onMaster,           \* the node of the render loop is the master
    drawsLeft,          \* draw calls (viewports and eyes) still to come
    calls,              \* the callbacks of the current frame, and their threads
    background          \* steps the loader and sampling threads have taken

VARIABLES
    statistics,         \* Engine::Statistics: the five history arrays
    recorded            \* number of frames recorded in the statistics

VARIABLES
    jsonPhase,          \* "off", "input", "text", "read"
    jsonObject,         \* the config::Cluster that is serialised
    jsonText,           \* the JSON text, token by token
    jsonOutput          \* what readJsonConfig returned

VARIABLES
    sensorTable,        \* per tracker its devices: sensor id, sensor address,
                        \* gTrackers[i][j].sensorDevice, the last pose received
    _addresses,         \* TrackingManager::_addresses
    lastPose            \* the last pose update a sensor connection reported

engineVars == <<connected, pc, barrier, waited, _syncTimeout, _printSyncMessage,
                _frameCounter, _shouldTerminate, inbox, swapReady, app, applied,
                errorLog, faults>>

codecVars == <<codecApp, codecPhase, codecState, codecBytes, codecResult>>

transferVars == <<linked, statusLog, linkChanges, imagePaths, transfer,
                  serverUploadDone, clientsUploadDone, serverUploadCount,
                  counter, lastPackage, texIds, transImages, numSyncedTex,
                  texIndex, workerPc, toClient, toMaster, ackDue, handled,
                  ackedBy, completedIds, sentTo, unread,
                  batchLog>>

tableVars == <<_trackers, gTrackers, enabled, _head, _headUser>>

threadVars == <<_isRunning, _samplingTime, _samplingThread, mutexTracking,
                mainPc, mainPhase, samplerPc, samplerI, samplerJ,
                isRunningLocal, passesAfterStop, passLog>>

deviceVars == <<deviceLock, polls, sample, transform, snapshot, headTransform>>

trackingVars == <<tableVars, threadVars, deviceVars>>

\* The build and what the tracking manager reported: whether the library was
\* built with VRPN, the warnings and errors logged, and what the last call of
\* isRunning() or samplingTime() by the application returned.
configVars == <<SGCT_HAS_VRPN, logged, returned, pending>>

renderVars == <<stage, frame, onMaster, drawsLeft, calls, background>>

statVars == <<statistics, recorded>>

jsonVars == <<jsonPhase, jsonObject, jsonText, jsonOutput>>

sensorVars == <<sensorTable, _addresses, lastPose>>

\* What the render loop and the barrier leave alone.
otherVars == <<codecVars, transferVars, trackingVars, configVars, renderVars,
               statVars, jsonVars,
               sensorVars>>

\* What the shared-state codec, the data transfer and the tracking manager
\* leave alone.
outsideCodec == <<engineVars, transferVars, trackingVars, configVars,
                  renderVars, statVars, jsonVars,
               sensorVars>>

outsideTransfer == <<engineVars, codecVars, trackingVars, configVars,
                     renderVars, statVars, jsonVars,
               sensorVars>>

outsideTracking == <<engineVars, codecVars, transferVars, renderVars,
                     statVars, jsonVars,
               sensorVars>>

vars == <<engineVars, codecVars, transferVars, trackingVars, configVars,
          renderVars, statVars, jsonVars,
               sensorVars>>

(***************************************************************************)
(* serializeObject / deserializeObject: the value is copied byte by byte   *)
(* (least significant byte first) to the end of the buffer, and read back  *)
(* from position pos, which advances by the size of the type.              *)
(***************************************************************************)
\* Byte i (from 1) of the value v, least significant byte first.
RECURSIVE ByteAt(_, _)
ByteAt(v, i) == IF i = 1 THEN v % ByteRange ELSE ByteAt(v \div ByteRange, i - 1)

ToBytes(v, size) == [i \in 1..size |-> ByteAt(v, i)]

\* The value of the size bytes of data that follow position pos.
RECURSIVE FromBytes(_, _, _)
FromBytes(data, pos, size) ==
    IF size = 0 THEN 0
    ELSE data[pos + 1] + ByteRange * FromBytes(data, pos + 1, size - 1)

serializeObject(data, v, size) == data \o ToBytes(v, size)

\* deserializeObject(data, pos, value) reads the size bytes of data that follow
\* pos into value and advances pos by size.  A read that would pass the end
\* of the buffer is a protocol error: nothing is read.
Readable(data, pos, size) == pos + size <= Len(data)

BoolToByte(b) == IF b THEN 1 ELSE 0
ByteToBool(v) == v # 0

\* remote/main.cpp encode(): currentTime, sizeFactor, showGraph, in this order
encode(st) ==
    LET d1 == serializeObject(<< >>, st.currentTime, SizeofDouble)
        d2 == serializeObject(d1, st.sizeFactor, SizeofFloat)
    IN  serializeObject(d2, BoolToByte(st.showGraph), SizeofBool)

\* remote/main.cpp decode(): the three fields are read one after the other,
\* each straight into the variable of the application; the first read that
\* fails ends the decode and leaves the fields that were already written.
decode(data, pos, st) ==
    LET p1 == pos + SizeofDouble
        p2 == pos + SizeofDouble + SizeofFloat
    IN  IF ~Readable(data, pos, SizeofDouble)
        THEN [ok |-> FALSE, state |-> st, pos |-> pos]
        ELSE IF ~Readable(data, p1, SizeofFloat)
        THEN [ok |-> FALSE, pos |-> p1,
              state |-> [st EXCEPT !.currentTime = FromBytes(data, pos, SizeofDouble)]]
        ELSE IF ~Readable(data, p2, SizeofBool)
        THEN [ok |-> FALSE, pos |-> p2,
              state |-> [st EXCEPT !.currentTime = FromBytes(data, pos, SizeofDouble),
                                   !.sizeFactor = FromBytes(data, p1, SizeofFloat)]]
        ELSE [ok |-> TRUE, pos |-> p2 + SizeofBool,
              state |-> [currentTime |-> FromBytes(data, pos, SizeofDouble),
                         sizeFactor |-> FromBytes(data, p1, SizeofFloat),
                         showGraph |-> ByteToBool(FromBytes(data, p2, SizeofBool))]]

EncodedLen == SizeofDouble + SizeofFloat + SizeofBool

\* Lengths of the buffers a sender hands to the channel: the full encoding,
\* or one that ends after the first field (a length mismatch).
SentLengths == {EncodedLen, SizeofDouble}

(***************************************************************************)
(* Initial state: the state after Engine::create on every node.            *)
(***************************************************************************)
InitialApp == [currentTime |-> 0, sizeFactor |-> DefaultSizeFactor, showGraph |-> FALSE]

EngineInit ==
    /\ connected = [c \in Clients |-> TRUE]
    /\ pc = [n \in Nodes |-> "preSync"]
    /\ barrier = [n \in Nodes |-> "Idle"]
    /\ waited = [n \in Nodes |-> 0]
    /\ _syncTimeout = DefaultSyncTimeout
    /\ _printSyncMessage = TRUE
    /\ _frameCounter = [n \in Nodes |-> 0]
    /\ _shouldTerminate = [n \in Nodes |-> FALSE]
    /\ inbox = [c \in Clients |-> << >>]
    /\ swapReady = [n \in Nodes |-> 0]
    /\ app = [n \in Nodes |-> InitialApp]
    /\ applied = [c \in Clients |-> << >>]
    /\ errorLog = [c \in Clients |-> 0]
    /\ faults = 0

\* No codec run is under way.
CodecOff ==
    /\ codecApp = "remote"
    /\ codecPhase = "off"
    /\ codecState = InitialApp
    /\ codecBytes = << >>
    /\ codecResult = [pos |-> 0, state |-> InitialApp]

\* openvrfulldomeviewer/main.cpp, the globals of the transfer; no transfer
\* connection is up yet.
TransferInit ==
    /\ linked = [c \in Clients |-> FALSE]
    /\ statusLog = [c \in Clients |-> << >>]
    /\ linkChanges = 0
    /\ imagePaths = 0
    /\ transfer = FALSE
    /\ serverUploadDone = FALSE
    /\ clientsUploadDone = FALSE
    /\ serverUploadCount = 0
    /\ counter = 0
    /\ lastPackage = [n \in Nodes |-> -1]
    /\ texIds = 0
    /\ transImages = 0
    /\ numSyncedTex = 0
    /\ texIndex = -1
    /\ workerPc = "idle"
    /\ toClient = [c \in Clients |-> << >>]
    /\ toMaster = [c \in Clients |-> << >>]
    /\ ackDue = [c \in Clients |-> -1]
    /\ handled = [c \in Clients |-> {}]
    /\ ackedBy = [c \in Clients |-> {}]
    /\ completedIds = {}
    /\ sentTo = [c \in Clients |-> {}]
    /\ unread = {}
    /\ batchLog = << >>

\* A name of the head user is empty, that of the first tracker (of its first
\* device), or a name that nothing is registered under.
NameKinds == {"empty", "known", "unknown"}

HeadUsers == [trackerName : NameKinds, deviceName : NameKinds]

\* _headUser before startSampling has looked for the user.
NoUser == [trackerName |-> "empty", deviceName |-> "empty"]

\* The tracking manager after its construction: no tracker, no thread.  A
\* transform is the pair of position and rotation of one poll result; poll
\* result 0 stands for the identity the device starts with.
TrackingInit ==
    /\ _trackers = << >>
    /\ gTrackers = << >>
    /\ enabled = TRUE
    /\ _head = FALSE
    /\ _headUser = NoUser
    /\ _isRunning = TRUE
    /\ _samplingTime = 0
    /\ _samplingThread = FALSE
    /\ mutexTracking = "none"
    /\ deviceLock = "none"
    /\ mainPc = "idle"
    /\ mainPhase = "config"
    /\ samplerPc = "none"
    /\ samplerI = 0
    /\ samplerJ = 0
    /\ isRunningLocal = TRUE
    /\ polls = 0
    /\ sample = 0
    /\ transform = [pos |-> 0, rot |-> 0]
    /\ snapshot = [pos |-> 0, rot |-> 0]
    /\ headTransform = [pos |-> 0, rot |-> 0]
    /\ passesAfterStop = 0
    /\ passLog = << >>

\* A build with VRPN; nothing logged, nothing returned yet.
ConfigOff ==
    /\ SGCT_HAS_VRPN = TRUE
    /\ logged = {}
    /\ returned = [fn |-> "none", value |-> "none"]
    /\ pending = "none"

\* The stages of a frame, the statistics and the configuration file are not
\* looked at.
RenderOff ==
    /\ stage = "off"
    /\ frame = 0
    /\ onMaster = TRUE
    /\ drawsLeft = 0
    /\ calls = << >>
    /\ background = 0

StatOff ==
    /\ statistics = << >>
    /\ recorded = 0

JsonOff ==
    /\ jsonPhase = "off"
    /\ jsonObject = << >>
    /\ jsonText = << >>
    /\ jsonOutput = << >>

\* No tracker with sensors, no address registered, no pose reported.
SensorOff ==
    /\ sensorTable = << >>
    /\ _addresses = {}
    /\ lastPose = [address |-> "none", sensor |-> 0, n |-> 0]

ElsewhereOff == RenderOff /\ StatOff /\ JsonOff /\ SensorOff

Init ==
    /\ EngineInit /\ CodecOff /\ TransferInit /\ TrackingInit /\ ConfigOff
    /\ ElsewhereOff


(***************************************************************************)
(* Helpers of the render loop.                                             *)
(***************************************************************************)
isMaster(n) == n = Master

\* Engine::getTime(): seconds since program start, read at the start of a
\* frame; every frame reads a later time than the frame before.
getTime(n) == _frameCounter[n] + 1

\* Mutant: a client that lost its connection stays in the quorum.
QuorumOfAll == Nodes

\* The nodes whose signal a rendezvous requires: the master and every client
\* that is connected.
Quorum == {Master} \cup {c \in Clients : connected[c]}

PreWaiting(n) == pc[n] = "preLock" /\ barrier[n] = "AwaitingPeers"
PostWaiting(n) == pc[n] = "postLock" /\ barrier[n] = "AwaitingPeers"

\* Every node of the quorum has signalled ready-to-swap for the frame n is in.
PostComplete(n) ==
    /\ n \in Quorum
    /\ \A m \in Quorum : swapReady[m] > _frameCounter[n]

\* Mutant: the completion test of the wait loop covers the pre stage only.
SyncCompletePreOnly(n) == PreWaiting(n) /\ inbox[n] # << >>

\* The wait loop of a frame lock tests its completion before its timeout.
SyncComplete(n) ==
    \/ PreWaiting(n) /\ inbox[n] # << >>
    \/ PostWaiting(n) /\ PostComplete(n)

\* Mutant: the transport delivers a message twice.
DeliverTwice(queue, msg) == queue \o <<msg, msg>>

\* The transport is an ordered byte stream: a message is queued behind the
\* earlier ones of the same connection.
Deliver(queue, msg) == Append(queue, msg)

(***************************************************************************)
(* setSyncParameters: called by the application before the render loop.    *)
(***************************************************************************)
setSyncParameters(printMessage, timeout) ==
    /\ \A n \in Nodes : pc[n] = "preSync" /\ _frameCounter[n] = 0
    /\ <<printMessage, timeout>> # <<_printSyncMessage, _syncTimeout>>
    /\ _printSyncMessage' = printMessage
    /\ _syncTimeout' = timeout
    /\ UNCHANGED otherVars
    /\ UNCHANGED <<connected, pc, barrier, waited, _frameCounter,
                   _shouldTerminate, inbox, swapReady, app, applied, errorLog, faults>>

(***************************************************************************)
(* The stages of one frame of Engine::render on node n.                    *)
(***************************************************************************)
\* The head of the render loop, the preSync callback (remote/main.cpp: the
\* master sets currentTime) and the entry of frameLockPreStage: the master
\* encodes the shared state and sends it to every connected client, and goes
\* on to draw; a client starts to wait for the state.  With the bytes the
\* message records the values that were encoded.
Sending(len) == IF len = EncodedLen THEN 0 ELSE 1

frameLockPreStage(n) ==
    /\ pc[n] = "preSync"
    /\ ~_shouldTerminate[n]
    /\ _frameCounter[n] < MaxFrame
    /\ IF isMaster(n)
       THEN /\ app' = [app EXCEPT ![n].currentTime = getTime(n)]
            /\ \E len \in SentLengths :
                 /\ faults + Sending(len) <= MaxFaults
                 /\ faults' = faults + Sending(len)
                 /\ inbox' = [c \in Clients |->
                                IF connected[c]
                                THEN Deliver(inbox[c],
                                       [frameNumber |-> _frameCounter[n],
                                        data |-> SubSeq(encode(app'[n]), 1, len),
                                        encoded |-> app'[n]])
                                ELSE inbox[c]]
            /\ pc' = [pc EXCEPT ![n] = "draw"]
            /\ UNCHANGED <<barrier, waited>>
       ELSE /\ barrier' = [barrier EXCEPT ![n] = "AwaitingPeers"]
            /\ waited' = [waited EXCEPT ![n] = 0]
            /\ pc' = [pc EXCEPT ![n] = "preLock"]
            /\ UNCHANGED <<inbox, app, faults>>
    /\ UNCHANGED otherVars
    /\ UNCHANGED <<connected, _syncTimeout, _printSyncMessage, _frameCounter,
                   _shouldTerminate, swapReady, applied, errorLog>>

\* A waiting client takes the oldest frame state of its connection and runs
\* the decode callback on it.  A decode that succeeds lets the client go; one
\* that fails is reported and the client waits on.
Decode(c) ==
    /\ c \in Clients
    /\ PreWaiting(c)
    /\ inbox[c] # << >>
    /\ LET msg == Head(inbox[c])
           r == decode(msg.data, 0, app[c])
       IN  /\ inbox' = [inbox EXCEPT ![c] = Tail(@)]
           /\ app' = [app EXCEPT ![c] = r.state]
           /\ IF r.ok
              THEN /\ barrier' = [barrier EXCEPT ![c] = "Ready"]
                   /\ applied' = [applied EXCEPT ![c] = Append(@, msg.frameNumber)]
                   /\ UNCHANGED errorLog
              ELSE /\ errorLog' = [errorLog EXCEPT ![c] = @ + 1]
                   /\ UNCHANGED <<barrier, applied>>
    /\ UNCHANGED otherVars
    /\ UNCHANGED <<connected, pc, waited, _syncTimeout, _printSyncMessage,
                   _frameCounter, _shouldTerminate, swapReady, faults>>

\* Mutant: the client goes on to draw without waiting for the barrier.
LeavePreStageEarly(c) ==
    /\ pc[c] = "preLock"
    /\ barrier' = [barrier EXCEPT ![c] = "Idle"]
    /\ pc' = [pc EXCEPT ![c] = IF _shouldTerminate[c] THEN "preSync" ELSE "draw"]
    /\ waited' = [waited EXCEPT ![c] = 0]
    /\ UNCHANGED otherVars
    /\ UNCHANGED <<connected, _syncTimeout, _printSyncMessage,
                   _frameCounter, _shouldTerminate, inbox, swapReady, app,
                   applied, errorLog, faults>>

\* frameLockPreStage, exit: the client goes on to draw, or back to the head of
\* the render loop when the engine is terminating.
LeavePreStage(c) ==
    /\ pc[c] = "preLock"
    /\ barrier[c] \in {"Ready", "TimedOut"}
    /\ barrier' = [barrier EXCEPT ![c] = "Idle"]
    /\ pc' = [pc EXCEPT ![c] = IF _shouldTerminate[c] THEN "preSync" ELSE "draw"]
    /\ waited' = [waited EXCEPT ![c] = 0]
    /\ UNCHANGED otherVars
    /\ UNCHANGED <<connected, _syncTimeout, _printSyncMessage,
                   _frameCounter, _shouldTerminate, inbox, swapReady, app,
                   applied, errorLog, faults>>

\* postSyncPreDraw, draw, draw2D and postDraw callbacks, then the entry of
\* frameLockPostStage: the node signals ready-to-swap and starts to wait.
Draw(n) ==
    /\ pc[n] = "draw"
    /\ swapReady' = [swapReady EXCEPT ![n] = @ + 1]
    /\ barrier' = [barrier EXCEPT ![n] = "AwaitingPeers"]
    /\ waited' = [waited EXCEPT ![n] = 0]
    /\ pc' = [pc EXCEPT ![n] = "postLock"]
    /\ UNCHANGED otherVars
    /\ UNCHANGED <<connected, _syncTimeout, _printSyncMessage, _frameCounter,
                   _shouldTerminate, inbox, app, applied, errorLog, faults>>

\* Mutant: the waiting nodes are released one after the other.
PostReleasedInTurn(n) ==
    /\ PostWaiting(n) /\ PostComplete(n)
    /\ \A m \in Nodes : m < n => ~(PostWaiting(m) /\ PostComplete(m))

\* The rendezvous is complete: every node that waits for it is released in
\* one step.
PostReleased(n) == PostWaiting(n) /\ PostComplete(n)

PostRelease ==
    /\ \E n \in Nodes : PostReleased(n)
    /\ barrier' = [n \in Nodes |-> IF PostReleased(n) THEN "Ready" ELSE barrier[n]]
    /\ UNCHANGED otherVars
    /\ UNCHANGED <<connected, pc, waited, _syncTimeout, _printSyncMessage,
                   _frameCounter, _shouldTerminate, inbox, swapReady, app,
                   applied, errorLog, faults>>

\* Mutant: the swap leaves the barrier state as it is.
SwapKeepsBarrier(n) ==
    /\ pc[n] = "postLock"
    /\ barrier[n] \in {"Ready", "TimedOut"}
    /\ pc' = [pc EXCEPT ![n] = "preSync"]
    /\ _frameCounter' = IF _shouldTerminate[n]
                        THEN _frameCounter
                        ELSE [_frameCounter EXCEPT ![n] = @ + 1]
    /\ waited' = [waited EXCEPT ![n] = 0]
    /\ UNCHANGED otherVars
    /\ UNCHANGED <<connected, barrier, _syncTimeout, _printSyncMessage,
                   _shouldTerminate, inbox, swapReady, app, applied, errorLog,
                   faults>>

\* Mutant: a frame whose barrier timed out is not counted.
SwapCountsReadyOnly(n) ==
    /\ pc[n] = "postLock"
    /\ barrier[n] \in {"Ready", "TimedOut"}
    /\ barrier' = [barrier EXCEPT ![n] = "Idle"]
    /\ pc' = [pc EXCEPT ![n] = "preSync"]
    /\ _frameCounter' = IF _shouldTerminate[n] \/ barrier[n] = "TimedOut"
                        THEN _frameCounter
                        ELSE [_frameCounter EXCEPT ![n] = @ + 1]
    /\ waited' = [waited EXCEPT ![n] = 0]
    /\ UNCHANGED otherVars
    /\ UNCHANGED <<connected, _syncTimeout, _printSyncMessage,
                   _shouldTerminate, inbox, swapReady, app, applied, errorLog,
                   faults>>

\* frameLockPostStage, exit, and the buffer swap that ends the frame.
Swap(n) ==
    /\ pc[n] = "postLock"
    /\ barrier[n] \in {"Ready", "TimedOut"}
    /\ barrier' = [barrier EXCEPT ![n] = "Idle"]
    /\ pc' = [pc EXCEPT ![n] = "preSync"]
    /\ _frameCounter' = IF _shouldTerminate[n]
                        THEN _frameCounter
                        ELSE [_frameCounter EXCEPT ![n] = @ + 1]
    /\ waited' = [waited EXCEPT ![n] = 0]
    /\ UNCHANGED otherVars
    /\ UNCHANGED <<connected, _syncTimeout, _printSyncMessage,
                   _shouldTerminate, inbox, swapReady, app, applied, errorLog, faults>>

(***************************************************************************)
(* The clock of a waiting node, and the expiry of the sync timeout.        *)
(***************************************************************************)
\* Node n has a step of its frame to take that does not wait for the clock.
Busy(n) ==
    \/ pc[n] = "preSync" /\ (_shouldTerminate[n] \/ _frameCounter[n] < MaxFrame)
    \/ pc[n] = "draw"
    \/ pc[n] \in {"preLock", "postLock"} /\ barrier[n] \in {"Ready", "TimedOut"}
    \/ SyncComplete(n)

\* A tick of the clock is TickSeconds long, far longer than a stage of a frame:
\* the clock advances when no node has a step to take, for every node that
\* waits and has not used up its timeout.
Ticking(n) ==
    barrier[n] = "AwaitingPeers" /\ ~SyncComplete(n) /\ waited[n] < _syncTimeout

Tick ==
    /\ \E n \in Nodes : Ticking(n)
    /\ \A n \in Nodes : ~Busy(n)
    /\ waited' = [n \in Nodes |->
                    IF Ticking(n) THEN waited[n] + TickSeconds ELSE waited[n]]
    /\ UNCHANGED otherVars
    /\ UNCHANGED <<connected, pc, barrier, _syncTimeout, _printSyncMessage,
                   _frameCounter, _shouldTerminate, inbox, swapReady, app,
                   applied, errorLog, faults>>

\* Mutant: the timeout is compared with a time the wait never reaches.
ExpiredLate(n) == waited[n] > _syncTimeout + TickSeconds

Expired(n) == waited[n] >= _syncTimeout

\* Mutant: the expiry of the timeout ends the render loop.
TimeOutTerminates(n) ==
    /\ barrier[n] = "AwaitingPeers"
    /\ ~SyncComplete(n)
    /\ Expired(n)
    /\ barrier' = [barrier EXCEPT ![n] = "TimedOut"]
    /\ _shouldTerminate' = [_shouldTerminate EXCEPT ![n] = TRUE]
    /\ UNCHANGED otherVars
    /\ UNCHANGED <<connected, pc, waited, _syncTimeout, _printSyncMessage,
                   _frameCounter, inbox, swapReady, app, applied, errorLog,
                   faults>>

TimeOut(n) ==
    /\ barrier[n] = "AwaitingPeers"
    /\ ~SyncComplete(n)
    /\ Expired(n)
    /\ barrier' = [barrier EXCEPT ![n] = "TimedOut"]
    /\ UNCHANGED otherVars
    /\ UNCHANGED <<connected, pc, waited, _syncTimeout, _printSyncMessage,
                   _frameCounter, _shouldTerminate, inbox, swapReady, app,
                   applied, errorLog, faults>>

(***************************************************************************)
(* Events from outside the render loop.                                    *)
(***************************************************************************)
\* The connection of client c is lost; what was in flight is lost with it.
Disconnect(c) ==
    /\ c \in Clients
    /\ connected[c]
    /\ faults < MaxFaults
    /\ faults' = faults + 1
    /\ connected' = [connected EXCEPT ![c] = FALSE]
    /\ inbox' = [inbox EXCEPT ![c] = << >>]
    /\ UNCHANGED otherVars
    /\ UNCHANGED <<pc, barrier, waited, _syncTimeout, _printSyncMessage,
                   _frameCounter, _shouldTerminate, swapReady, app, applied,
                   errorLog>>

\* Mutant: terminate only sets the flag; a thread in the barrier waits on.
terminateFlagOnly(n) ==
    /\ pc[n] # "done"
    /\ ~_shouldTerminate[n]
    /\ faults < MaxFaults
    /\ faults' = faults + 1
    /\ _shouldTerminate' = [_shouldTerminate EXCEPT ![n] = TRUE]
    /\ UNCHANGED otherVars
    /\ UNCHANGED <<connected, pc, barrier, waited, _syncTimeout,
                   _printSyncMessage, _frameCounter, inbox, swapReady, app,
                   applied, errorLog>>

\* Engine::terminate (the keyboard callback on Esc): a thread that is blocked
\* in the barrier is released at once.
terminate(n) ==
    /\ pc[n] # "done"
    /\ ~_shouldTerminate[n]
    /\ faults < MaxFaults
    /\ faults' = faults + 1
    /\ _shouldTerminate' = [_shouldTerminate EXCEPT ![n] = TRUE]
    /\ barrier' = [barrier EXCEPT ![n] =
                     IF @ = "AwaitingPeers" THEN "TimedOut" ELSE @]
    /\ UNCHANGED otherVars
    /\ UNCHANGED <<connected, pc, waited, _syncTimeout, _printSyncMessage,
                   _frameCounter, inbox, swapReady, app, applied, errorLog>>

\* The render loop ends at its head; the connection of a client ends with it.
Exit(n) ==
    /\ pc[n] = "preSync"
    /\ _shouldTerminate[n]
    /\ pc' = [pc EXCEPT ![n] = "done"]
    /\ connected' = [c \in Clients |-> connected[c] /\ c # n]
    /\ inbox' = [c \in Clients |-> IF c = n THEN << >> ELSE inbox[c]]
    /\ UNCHANGED otherVars
    /\ UNCHANGED <<barrier, waited, _syncTimeout, _printSyncMessage,
                   _frameCounter, _shouldTerminate, swapReady, app, applied,
                   errorLog, faults>>

Next ==
    \/ \E par \in SyncParameterChoices : setSyncParameters(par[1], par[2])
    \/ \E n \in Nodes : frameLockPreStage(n)
    \/ \E c \in Clients : Decode(c)
    \/ \E c \in Clients : LeavePreStage(c)
    \/ \E n \in Nodes : Draw(n)
    \/ PostRelease
    \/ \E n \in Nodes : Swap(n)
    \/ Tick
    \/ \E n \in Nodes : TimeOut(n)
    \/ \E c \in Clients : Disconnect(c)
    \/ \E n \in Nodes : terminate(n)
    \/ \E n \in Nodes : Exit(n)

Spec == Init /\ [][Next]_vars

TypeOK ==
    /\ connected \in [Clients -> BOOLEAN]
    /\ pc \in [Nodes -> {"preSync", "preLock", "draw", "postLock", "done"}]
    /\ barrier \in [Nodes -> SyncBarrier]
    /\ \A n \in Nodes : waited[n] \in Nat /\ _frameCounter[n] \in 0..MaxFrame
    /\ <<_printSyncMessage, _syncTimeout>> \in SyncParameterChoices
    /\ _shouldTerminate \in [Nodes -> BOOLEAN]


(***************************************************************************)
(* The render loop, the wait loops and the clock always go on; connection  *)
(* losses, terminate calls and calls of setSyncParameters need not happen. *)
(***************************************************************************)
Progress ==
    \/ \E n \in Nodes : frameLockPreStage(n)
    \/ \E c \in Clients : Decode(c)
    \/ \E c \in Clients : LeavePreStage(c)
    \/ \E n \in Nodes : Draw(n)
    \/ PostRelease
    \/ \E n \in Nodes : Swap(n)
    \/ Tick
    \/ \E n \in Nodes : TimeOut(n)
    \/ \E n \in Nodes : Exit(n)

FairSpec == Spec /\ WF_vars(Progress)

(***************************************************************************)
(* Properties                                                              *)
(***************************************************************************)
Awaiting(n) == barrier[n] = "AwaitingPeers"

\* The step takes barrier[n] from a to b.
Moves(n, a, b) == barrier[n] = a /\ barrier'[n] = b

\* The step is the expiry of n's sync timeout (not a terminate call, which
\* counts as a fault).
TimeoutStep(n) == Moves(n, "AwaitingPeers", "TimedOut") /\ faults' = faults

\* The state at the head of client c's connection decodes without error.
HeadDecodes(c) ==
    c \in Clients /\ inbox[c] # << >> /\ decode(Head(inbox[c]).data, 0, app[c]).ok

\* C1: a node that enters AwaitingPeers, before the sync or after the draw,
\* always leaves it; it never waits longer than the configured timeout (to the
\* precision of the clock), and a wait that the timeout ends is flagged
\* TimedOut.
C1_BarrierReleased ==
    /\ \A n \in Nodes : Awaiting(n) ~> (barrier[n] \in {"Ready", "TimedOut"})
    /\ [](\A n \in Nodes : Awaiting(n) => waited[n] < _syncTimeout + TickSeconds)
    /\ [][\A n \in Nodes :
            (Awaiting(n) /\ ~Awaiting(n)' /\ ~SyncComplete(n)
               /\ _shouldTerminate'[n] = _shouldTerminate[n])
            => (Expired(n) /\ barrier'[n] = "TimedOut")]_vars

C1_Witness ==
    \E n \in Nodes, m \in Clients :
        /\ barrier[n] = "TimedOut" /\ Expired(n) /\ ~_shouldTerminate[n]
        /\ n # m /\ connected[m] /\ swapReady[m] <= _frameCounter[n]
        /\ pc[n] = "postLock"

\* C2: when the sync of a waiting node is complete before its timeout has
\* elapsed (every node of the quorum has signalled, or the frame state has
\* arrived intact), the node's wait ends in Ready and never in TimedOut, no
\* time passes before it is released, and as long as no connection is lost the
\* release stays due.
ReleaseDue(n) ==
    /\ ~Expired(n)
    /\ \/ PostWaiting(n) /\ PostComplete(n)
       \/ PreWaiting(n) /\ HeadDecodes(n)

BarrierTransitions ==
    { <<"Idle", "AwaitingPeers">>, <<"AwaitingPeers", "Ready">>,
      <<"AwaitingPeers", "TimedOut">>, <<"Ready", "Idle">>,
      <<"TimedOut", "Idle">> }

C3_OnlyListedTransitions ==
    [][\A n \in Nodes :
        barrier'[n] # barrier[n] => <<barrier[n], barrier'[n]>> \in BarrierTransitions]_vars

C3_Witness ==
    \E n, m \in Nodes :
        /\ barrier[n] = "TimedOut" /\ barrier[m] = "Ready"
        /\ _frameCounter[n] >= 1 /\ _frameCounter[m] >= 1


CycleCompletes(n) ==
    /\ pc[n] = "postLock" /\ barrier[n] \in {"Ready", "TimedOut"}
    /\ barrier'[n] = "Idle"

LostWithoutSignal(n) ==
    \E d \in Clients : ~connected[d] /\ swapReady[d] <= _frameCounter[n]

C6_ReadyWithoutLostPeer ==
    [][\A n \in Nodes :
        (/\ PostWaiting(n) /\ (n = Master \/ connected[n])
         /\ LostWithoutSignal(n)
         /\ \A m \in Nodes : (m = Master \/ connected[m]) => swapReady[m] > _frameCounter[n]
         /\ barrier'[n] # barrier[n]
         /\ faults' = faults)
        => barrier'[n] = "Ready"]_vars

C6_Witness ==
    \E n \in Nodes :
        /\ pc[n] = "postLock" /\ barrier[n] = "Ready"
        /\ LostWithoutSignal(n)
        /\ _frameCounter[n] >= 1

C9_AppliedIncreasing ==
    \A c \in Clients :
        \A i, j \in DOMAIN applied[c] : i < j => applied[c][i] < applied[c][j]

C9_Witness ==
    \E c \in Clients : connected[c] /\ Len(applied[c]) >= 2

\* C10: when the decode of a client fails, the error is reported, no field of
\* the failed frame state is applied (the application state stays what it
\* was) and the client keeps running.
C10_FailedDecodeDiscarded ==
    [][\A c \in Clients :
        errorLog'[c] # errorLog[c]
        => /\ errorLog'[c] = errorLog[c] + 1
           /\ app'[c] = app[c]
           /\ applied'[c] = applied[c]
           /\ pc'[c] # "done" /\ ~_shouldTerminate'[c]]_vars


(***************************************************************************)
(* The remote application with its external control: the render loop and   *)
(* the messages of the control connection (remote/main.cpp).               *)
(***************************************************************************)
\* The messages of the control connection, character by character:
\* "graph=1", "graph=0", "size=75", and one the application does not know.
ControlMessages ==
    {<<"g", "r", "a", "p", "h", "=", "1">>,
     <<"g", "r", "a", "p", "h", "=", "0">>,
     <<"s", "i", "z", "e", "=", "7", "5">>,
     <<"s", "t", "a", "t", "s", "=", "1">>}

Digits == <<"0", "1", "2", "3", "4", "5", "6", "7", "8", "9">>

DigitOf(ch) == (CHOOSE d \in DOMAIN Digits : Digits[d] = ch) - 1

\* std::stoi of a string of digits.
RECURSIVE stoi(_)
stoi(str) ==
    IF str = << >> THEN 0
    ELSE 10 * stoi(SubSeq(str, 1, Len(str) - 1)) + DigitOf(str[Len(str)])

\* The assignments of externalControlMessage: "graph=" and a character set
\* showGraph, "size=" and a number set sizeFactor to the number of hundredths.
Controlled(st, msg) ==
    IF Len(msg) = 7 /\ SubSeq(msg, 1, 5) = <<"g", "r", "a", "p", "h">>
    THEN [st EXCEPT !.showGraph = (msg[7] = "1")]
    ELSE IF Len(msg) >= 6 /\ SubSeq(msg, 1, 4) = <<"s", "i", "z", "e">>
    THEN [st EXCEPT !.sizeFactor = stoi(SubSeq(msg, 6, Len(msg)))]
    ELSE st

\* Mutant: the message is applied on every node.
externalControlMessageAnyNode(n, msg) ==
    /\ pc[n] # "done"
    /\ app' = [app EXCEPT ![n] = Controlled(@, msg)]
    /\ UNCHANGED otherVars
    /\ UNCHANGED <<connected, pc, barrier, waited, _syncTimeout,
                   _printSyncMessage, _frameCounter, _shouldTerminate, inbox,
                   swapReady, applied, errorLog, faults>>

\* externalControlMessage: only the node for which isMaster() is true looks at
\* the message.
externalControlMessage(n, msg) ==
    /\ pc[n] # "done"
    /\ app' = IF isMaster(n) THEN [app EXCEPT ![n] = Controlled(@, msg)]
                             ELSE app
    /\ UNCHANGED otherVars
    /\ UNCHANGED <<connected, pc, barrier, waited, _syncTimeout,
                   _printSyncMessage, _frameCounter, _shouldTerminate, inbox,
                   swapReady, applied, errorLog, faults>>

\* The remote application leaves the sync parameters at their defaults.
RemoteNext ==
    \/ \E n \in Nodes : frameLockPreStage(n)
    \/ \E c \in Clients : Decode(c)
    \/ \E c \in Clients : LeavePreStage(c)
    \/ \E n \in Nodes : Draw(n)
    \/ PostRelease
    \/ \E n \in Nodes : Swap(n)
    \/ Tick
    \/ \E n \in Nodes : TimeOut(n)
    \/ \E c \in Clients : Disconnect(c)
    \/ \E n \in Nodes : terminate(n)
    \/ \E n \in Nodes : Exit(n)
    \/ \E n \in Nodes, msg \in ControlMessages : externalControlMessage(n, msg)

RemoteSpec == Init /\ [][RemoteNext]_vars

\* C40: a client's currentTime, sizeFactor and showGraph change only in a
\* step that decodes a frame state of the master (the preSync callback and
\* externalControlMessage change them on the master only), and after a
\* decode without error they are the values the master had when it encoded
\* that frame state.
C40_ClientStateFromDecode ==
    [][\A c \in Clients :
        /\ app'[c] # app[c]
             => /\ PreWaiting(c) /\ inbox[c] # << >>
                /\ inbox'[c] = Tail(inbox[c])
                /\ app'[c] = decode(Head(inbox[c]).data, 0, app[c]).state
        /\ applied'[c] # applied[c]
             => /\ applied'[c] = Append(applied[c], Head(inbox[c]).frameNumber)
                /\ app'[c] = Head(inbox[c]).encoded]_vars

\* A client has decoded a frame state with values the control connection set
\* on the master, while the master has gone on to other values.
C40_Witness ==
    \E c \in Clients :
        /\ applied[c] # << >>
        /\ app[c].showGraph /\ app[c].sizeFactor # DefaultSizeFactor
        /\ app[c].currentTime > 0
        /\ ~app[Master].showGraph
        /\ pc[c] = "draw"

(***************************************************************************)
(* The shared-state codec of the two applications, run on its own: the     *)
(* master encodes a state, a client decodes the bytes into its own copy.   *)
(***************************************************************************)
SizeofInt32 == 4

\* writeInt32 / readInt32: a signed value, two's complement, low byte first.
RECURSIVE FromBytesSigned(_, _, _)
FromBytesSigned(data, pos, size) ==
    IF size = 1
    THEN IF data[pos + 1] >= ByteRange \div 2
         THEN data[pos + 1] - ByteRange
         ELSE data[pos + 1]
    ELSE data[pos + 1] + ByteRange * FromBytesSigned(data, pos + 1, size - 1)

\* openvrfulldomeviewer: the variables shared across the cluster.
InitialViewer ==
    [curr_time |-> 0, info |-> FALSE, stats |-> FALSE, wireframe |-> FALSE,
     texIndex |-> -1, incrIndex |-> 1]

myEncodeFun(st) ==
    LET d1 == serializeObject(<< >>, st.curr_time, SizeofDouble)
        d2 == serializeObject(d1, BoolToByte(st.info), SizeofBool)
        d3 == serializeObject(d2, BoolToByte(st.stats), SizeofBool)
        d4 == serializeObject(d3, BoolToByte(st.wireframe), SizeofBool)
        d5 == serializeObject(d4, st.texIndex, SizeofInt32)
    IN  serializeObject(d5, st.incrIndex, SizeofInt32)

\* Mutant: the two indices are read in the other order.
myDecodeFunSwapped(data, pos) ==
    LET p1 == pos + SizeofDouble
        p4 == p1 + 3 * SizeofBool
        p5 == p4 + SizeofInt32
    IN  [pos |-> p5 + SizeofInt32,
         state |-> [curr_time |-> FromBytes(data, pos, SizeofDouble),
                    info |-> ByteToBool(FromBytes(data, p1, SizeofBool)),
                    stats |-> ByteToBool(FromBytes(data, p1 + SizeofBool, SizeofBool)),
                    wireframe |-> ByteToBool(FromBytes(data, p1 + 2 * SizeofBool, SizeofBool)),
                    texIndex |-> FromBytesSigned(data, p5, SizeofInt32),
                    incrIndex |-> FromBytesSigned(data, p4, SizeofInt32)]]

myDecodeFun(data, pos) ==
    LET p1 == pos + SizeofDouble
        p4 == p1 + 3 * SizeofBool
        p5 == p4 + SizeofInt32
    IN  [pos |-> p5 + SizeofInt32,
         state |-> [curr_time |-> FromBytes(data, pos, SizeofDouble),
                    info |-> ByteToBool(FromBytes(data, p1, SizeofBool)),
                    stats |-> ByteToBool(FromBytes(data, p1 + SizeofBool, SizeofBool)),
                    wireframe |-> ByteToBool(FromBytes(data, p1 + 2 * SizeofBool, SizeofBool)),
                    texIndex |-> FromBytesSigned(data, p4, SizeofInt32),
                    incrIndex |-> FromBytesSigned(data, p5, SizeofInt32)]]

\* The states the codec is run on: times and factors of one and of more than
\* one byte, every combination of the flags, a negative and a two-byte index.
TimeValues == {0, 1, 300}
FactorValues == {DefaultSizeFactor, 70000}
IndexValues == {-1, 0, 258}
IncrValues == {1, 2}

RemoteStates ==
    [currentTime : TimeValues, sizeFactor : FactorValues, showGraph : BOOLEAN]

ViewerStates ==
    [curr_time : TimeValues \ {1}, info : BOOLEAN, stats : BOOLEAN,
     wireframe : BOOLEAN, texIndex : IndexValues, incrIndex : IncrValues]

CodecInit ==
    /\ EngineInit /\ TransferInit /\ TrackingInit /\ ConfigOff /\ ElsewhereOff
    /\ codecPhase = "input"
    /\ \/ codecApp = "remote" /\ codecState \in RemoteStates
       \/ codecApp = "viewer" /\ codecState \in ViewerStates
    /\ codecBytes = << >>
    /\ codecResult = [pos |-> 0,
                      state |-> IF codecApp = "remote" THEN InitialApp
                                                        ELSE InitialViewer]

\* The master's encode callback.
CodecEncode ==
    /\ codecPhase = "input"
    /\ codecBytes' = IF codecApp = "remote" THEN encode(codecState)
                                             ELSE myEncodeFun(codecState)
    /\ codecPhase' = "encoded"
    /\ UNCHANGED <<codecApp, codecState, codecResult>>
    /\ UNCHANGED outsideCodec

\* A client's decode callback on the bytes, from position 0, into its copy of
\* the shared variables.
CodecDecode ==
    /\ codecPhase = "encoded"
    /\ codecResult' =
         IF codecApp = "remote"
         THEN LET r == decode(codecBytes, 0, codecResult.state)
              IN  [pos |-> r.pos, state |-> r.state]
         ELSE myDecodeFun(codecBytes, 0)
    /\ codecPhase' = "decoded"
    /\ UNCHANGED <<codecApp, codecState, codecBytes>>
    /\ UNCHANGED outsideCodec

CodecNext == CodecEncode \/ CodecDecode

CodecSpec == CodecInit /\ [][CodecNext]_vars

\* C11: decoding the bytes that encode produced for a state reconstructs exactly
\* that state, and decode consumes exactly the bytes encode produced: the sum of
\* the widths of the fields, in the order encode wrote them.
C11_RoundTrip ==
    /\ codecPhase \in {"encoded", "decoded"}
         => Len(codecBytes) = IF codecApp = "remote"
                              THEN SizeofDouble + SizeofFloat + SizeofBool
                              ELSE SizeofDouble + 3 * SizeofBool + 2 * SizeofInt32
    /\ codecPhase = "decoded"
         => /\ codecResult.state = codecState
            /\ codecResult.pos = Len(codecBytes)

C11_Witness ==
    /\ codecPhase = "decoded" /\ codecApp = "viewer"
    /\ codecResult.state.texIndex = -1 /\ codecResult.state.incrIndex = 2
    /\ codecResult.state.curr_time = 300 /\ codecResult.state.wireframe


(***************************************************************************)
(* The bulk data transfer of openvrfulldomeviewer/main.cpp.  The master's  *)
(* loader thread sends the dropped images to the clients; a client hands a *)
(* received image to myDataTransferDecoder and acknowledges it; the master *)
(* counts the acknowledgements in myDataTransferAcknowledge.               *)
(***************************************************************************)
MaxImages == 2
MaxLinkChanges == 4

\* The ids of the packages: the indices of the dropped images.
PackageIds == 0..(MaxImages - 1)

\* ClusterManager::getNumberOfNodes: the nodes of the cluster configuration.
getNumberOfNodes == Cardinality(Nodes)

\* The ids i = first .. last in the order of the loop of startDataTransfer.
RECURSIVE IdsFrom(_, _)
IdsFrom(first, last) ==
    IF first > last THEN << >> ELSE <<first>> \o IdsFrom(first + 1, last)

\* Engine::transferDataBetweenNodes: the package goes to every client whose
\* connection is up.
transferDataBetweenNodes(queues, ids) ==
    [c \in Clients |-> IF linked[c] THEN queues[c] \o ids ELSE queues[c]]

\* myDropCallback on the master: files are dropped on the window, count of
\* them are images (.jpg, .jpeg, .png).  serverUploadCount is set to 0 and then
\* counts the images; every image is appended to imagePaths and sets transfer.
myDropCallback(count) ==
    /\ imagePaths + count <= MaxImages
    /\ imagePaths' = imagePaths + count
    /\ serverUploadCount' = count
    /\ transfer' = (transfer \/ count > 0)
    /\ UNCHANGED <<linked, statusLog, linkChanges, serverUploadDone,
                   clientsUploadDone, counter, lastPackage, texIds, transImages,
                   numSyncedTex, texIndex, workerPc, toClient, toMaster, ackDue,
                   handled, ackedBy, completedIds, sentTo,
                   unread, batchLog>>
    /\ UNCHANGED outsideTransfer

\* The ids of a sequence that are not in the set failed, in their order.
RECURSIVE ReadFiles(_, _)
ReadFiles(ids, failed) ==
    IF ids = << >> THEN << >>
    ELSE (IF Head(ids) \in failed THEN << >> ELSE <<Head(ids)>>)
         \o ReadFiles(Tail(ids), failed)

\* Mutant: the loader thread tests the transfer flag only.
startDataTransferUntested(failed) ==
    /\ workerPc = "idle"
    /\ transfer
    /\ LET id == lastPackage[Master] + 1
           sent == ReadFiles(IdsFrom(id, imagePaths - 1), failed)
       IN  /\ failed \subseteq id..(imagePaths - 1)
           /\ IF imagePaths > id
              THEN /\ lastPackage' = [lastPackage EXCEPT ![Master] = imagePaths - 1]
                   /\ toClient' = transferDataBetweenNodes(toClient, sent)
                   /\ sentTo' = [c \in Clients |->
                                   IF linked[c]
                                   THEN sentTo[c] \cup ((id..(imagePaths - 1)) \ failed)
                                   ELSE sentTo[c]]
                   /\ transImages' = transImages + Len(sent)
                   /\ unread' = unread \cup failed
              ELSE UNCHANGED <<lastPackage, toClient, transImages, sentTo, unread>>
           /\ batchLog' = Append(batchLog, [ids |-> sent, first |-> texIds,
                                            consumed |-> FALSE])
    /\ workerPc' = "started"
    /\ UNCHANGED <<linked, statusLog, linkChanges, imagePaths, transfer,
                   serverUploadDone, clientsUploadDone, serverUploadCount,
                   counter, texIds, numSyncedTex, texIndex, toMaster, ackDue,
                   handled, ackedBy, completedIds>>
    /\ UNCHANGED outsideTransfer

\* threadWorker, the test of the flags and startDataTransfer: lastPackage is
\* set to the last path there is, and every image after the old lastPackage
\* whose file can be read (all but those of failed) is handed to
\* transferDataBetweenNodes and read on the master.
startDataTransfer(failed) ==
    /\ workerPc = "idle"
    /\ transfer /\ ~serverUploadDone /\ ~clientsUploadDone
    /\ LET id == lastPackage[Master] + 1
           sent == ReadFiles(IdsFrom(id, imagePaths - 1), failed)
       IN  /\ failed \subseteq id..(imagePaths - 1)
           /\ IF imagePaths > id
              THEN /\ lastPackage' = [lastPackage EXCEPT ![Master] = imagePaths - 1]
                   /\ toClient' = transferDataBetweenNodes(toClient, sent)
                   /\ sentTo' = [c \in Clients |->
                                   IF linked[c]
                                   THEN sentTo[c] \cup ((id..(imagePaths - 1)) \ failed)
                                   ELSE sentTo[c]]
                   /\ transImages' = transImages + Len(sent)
                   /\ unread' = unread \cup failed
              ELSE UNCHANGED <<lastPackage, toClient, transImages, sentTo, unread>>
           /\ batchLog' = Append(batchLog, [ids |-> sent, first |-> texIds,
                                            consumed |-> FALSE])
    /\ workerPc' = "started"
    /\ UNCHANGED <<linked, statusLog, linkChanges, imagePaths, transfer,
                   serverUploadDone, clientsUploadDone, serverUploadCount,
                   counter, texIds, numSyncedTex, texIndex, toMaster, ackDue,
                   handled, ackedBy, completedIds>>
    /\ UNCHANGED outsideTransfer

\* threadWorker, transfer.setVal(false) after startDataTransfer has returned.
transferSetValFalse ==
    /\ workerPc = "started"
    /\ transfer' = FALSE
    /\ workerPc' = "upload"
    /\ UNCHANGED <<linked, statusLog, linkChanges, imagePaths, serverUploadDone,
                   clientsUploadDone, serverUploadCount, counter, lastPackage,
                   texIds, transImages, numSyncedTex, texIndex, toClient,
                   toMaster, ackDue, handled, ackedBy, completedIds, sentTo,
                   unread, batchLog>>
    /\ UNCHANGED outsideTransfer

\* threadWorker, second half: uploadTexture on the master, serverUploadDone.
threadWorker ==
    /\ workerPc = "upload"
    /\ texIds' = texIds + transImages
    /\ transImages' = 0
    /\ serverUploadDone' = TRUE
    /\ clientsUploadDone' = (clientsUploadDone \/ getNumberOfNodes = 1)
    /\ workerPc' = "idle"
    /\ UNCHANGED <<linked, statusLog, linkChanges, imagePaths, transfer,
                   serverUploadCount, counter, lastPackage, numSyncedTex,
                   texIndex, toClient, toMaster, ackDue, handled, ackedBy,
                   completedIds, sentTo,
                   unread, batchLog>>
    /\ UNCHANGED outsideTransfer

\* Mutant: the acknowledgement is sent on receipt, the handler is not called.
ReceiveTransferAckFirst(c) ==
    /\ toClient[c] # << >>
    /\ ackDue[c] = -1
    /\ toClient' = [toClient EXCEPT ![c] = Tail(@)]
    /\ toMaster' = [toMaster EXCEPT ![c] = Append(@, Head(toClient[c]))]
    /\ UNCHANGED <<linked, statusLog, linkChanges, imagePaths, transfer,
                   serverUploadDone, clientsUploadDone, serverUploadCount,
                   counter, lastPackage, texIds, transImages, numSyncedTex,
                   texIndex, workerPc, ackDue, handled, ackedBy, completedIds, sentTo,
                   unread, batchLog>>
    /\ UNCHANGED outsideTransfer

\* A client receives a package: the engine calls myDataTransferDecoder with it
\* (the client notes the id, reads the image and uploads the texture); the
\* acknowledgement is due after the call.
myDataTransferDecoder(c) ==
    /\ toClient[c] # << >>
    /\ ackDue[c] = -1
    /\ LET packageId == Head(toClient[c])
       IN  /\ lastPackage' = [lastPackage EXCEPT ![c] = packageId]
           /\ handled' = [handled EXCEPT ![c] = @ \cup {packageId}]
           /\ ackDue' = [ackDue EXCEPT ![c] = packageId]
    /\ toClient' = [toClient EXCEPT ![c] = Tail(@)]
    /\ UNCHANGED <<linked, statusLog, linkChanges, imagePaths, transfer,
                   serverUploadDone, clientsUploadDone, serverUploadCount,
                   counter, texIds, transImages, numSyncedTex, texIndex,
                   workerPc, toMaster, ackedBy, completedIds, sentTo,
                   unread, batchLog>>
    /\ UNCHANGED outsideTransfer

\* The client's engine sends the acknowledgement of the package it handled.
SendAcknowledge(c) ==
    /\ ackDue[c] # -1
    /\ toMaster' = [toMaster EXCEPT ![c] = Append(@, ackDue[c])]
    /\ ackDue' = [ackDue EXCEPT ![c] = -1]
    /\ UNCHANGED <<linked, statusLog, linkChanges, imagePaths, transfer,
                   serverUploadDone, clientsUploadDone, serverUploadCount,
                   counter, lastPackage, texIds, transImages, numSyncedTex,
                   texIndex, workerPc, toClient, handled, ackedBy, completedIds, sentTo,
                   unread, batchLog>>
    /\ UNCHANGED outsideTransfer

\* Mutant: the acknowledgements of every package are counted, not only those
\* of the last one.
myDataTransferAcknowledgeAny(c) ==
    /\ toMaster[c] # << >>
    /\ LET packageId == Head(toMaster[c])
           done == counter + 1 = getNumberOfNodes - 1
       IN  /\ ackedBy' = [ackedBy EXCEPT ![c] = @ \cup {packageId}]
           /\ counter' = IF done THEN 0 ELSE counter + 1
           /\ clientsUploadDone' = (clientsUploadDone \/ done)
           /\ completedIds' = IF done THEN completedIds \cup {lastPackage[Master]}
                                      ELSE completedIds
    /\ toMaster' = [toMaster EXCEPT ![c] = Tail(@)]
    /\ UNCHANGED <<linked, statusLog, linkChanges, imagePaths, transfer,
                   serverUploadDone, serverUploadCount, lastPackage, texIds,
                   transImages, numSyncedTex, texIndex, workerPc, toClient,
                   ackDue, handled, sentTo,
                   unread, batchLog>>
    /\ UNCHANGED outsideTransfer

\* The master receives an acknowledgement of client c: the engine calls
\* myDataTransferAcknowledge(packageId, c).  Acknowledgements of the last
\* package are counted; when the count reaches the number of nodes less one
\* the clients are done and the count starts again.
myDataTransferAcknowledge(c) ==
    /\ toMaster[c] # << >>
    /\ LET packageId == Head(toMaster[c])
           counted == packageId = lastPackage[Master]
           done == counted /\ counter + 1 = getNumberOfNodes - 1
       IN  /\ ackedBy' = [ackedBy EXCEPT ![c] = @ \cup {packageId}]
           /\ counter' = IF done THEN 0
                         ELSE IF counted THEN counter + 1 ELSE counter
           /\ clientsUploadDone' = (clientsUploadDone \/ done)
           /\ completedIds' = IF done THEN completedIds \cup {packageId}
                                      ELSE completedIds
    /\ toMaster' = [toMaster EXCEPT ![c] = Tail(@)]
    /\ UNCHANGED <<linked, statusLog, linkChanges, imagePaths, transfer,
                   serverUploadDone, serverUploadCount, lastPackage, texIds,
                   transImages, numSyncedTex, texIndex, workerPc, toClient,
                   ackDue, handled, sentTo,
                   unread, batchLog>>
    /\ UNCHANGED outsideTransfer

\* myPreSyncFun on the master, once master and clients have uploaded: the new
\* textures are counted in, the index moves to the first new one and the two
\* flags are cleared.  (curr_time, which the callback also sets, has no part
\* in the transfer.)
myPreSyncFun ==
    /\ serverUploadDone /\ clientsUploadDone
    /\ numSyncedTex' = texIds
    /\ texIndex' = texIds - serverUploadCount
    /\ serverUploadDone' = FALSE
    /\ clientsUploadDone' = FALSE
    /\ batchLog' = [i \in DOMAIN batchLog |->
                      [batchLog[i] EXCEPT !.consumed = TRUE]]
    /\ UNCHANGED <<linked, statusLog, linkChanges, imagePaths, transfer,
                   serverUploadCount, counter, lastPackage, texIds, transImages,
                   workerPc, toClient, toMaster, ackDue, handled, ackedBy,
                   completedIds, sentTo, unread>>
    /\ UNCHANGED outsideTransfer

\* myDataTransferStatus(connected, c): the call is logged.
myDataTransferStatus(log, connectedNow) == Append(log, connectedNow)

\* The transfer connection to client c comes up; the status callback is called.
LinkUp(c) ==
    /\ ~linked[c]
    /\ linkChanges < MaxLinkChanges
    /\ linkChanges' = linkChanges + 1
    /\ linked' = [linked EXCEPT ![c] = TRUE]
    /\ statusLog' = [statusLog EXCEPT ![c] = myDataTransferStatus(@, TRUE)]
    /\ UNCHANGED <<imagePaths, transfer, serverUploadDone, clientsUploadDone,
                   serverUploadCount, counter, lastPackage, texIds, transImages,
                   numSyncedTex, texIndex, workerPc, toClient, toMaster, ackDue,
                   handled, ackedBy, completedIds, sentTo,
                   unread, batchLog>>
    /\ UNCHANGED outsideTransfer

\* Mutant: the loss of the connection is reported twice.
LinkDownTwice(c) ==
    /\ linked[c]
    /\ linkChanges < MaxLinkChanges
    /\ linkChanges' = linkChanges + 1
    /\ linked' = [linked EXCEPT ![c] = FALSE]
    /\ statusLog' = [statusLog EXCEPT ![c] =
                       myDataTransferStatus(myDataTransferStatus(@, FALSE), FALSE)]
    /\ toClient' = [toClient EXCEPT ![c] = << >>]
    /\ toMaster' = [toMaster EXCEPT ![c] = << >>]
    /\ ackDue' = [ackDue EXCEPT ![c] = -1]
    /\ UNCHANGED <<imagePaths, transfer, serverUploadDone, clientsUploadDone,
                   serverUploadCount, counter, lastPackage, texIds, transImages,
                   numSyncedTex, texIndex, workerPc, handled, ackedBy,
                   completedIds, sentTo,
                   unread, batchLog>>
    /\ UNCHANGED outsideTransfer

\* The transfer connection to client c is lost: the status callback is called,
\* what was in flight on the connection is lost.
LinkDown(c) ==
    /\ linked[c]
    /\ linkChanges < MaxLinkChanges
    /\ linkChanges' = linkChanges + 1
    /\ linked' = [linked EXCEPT ![c] = FALSE]
    /\ statusLog' = [statusLog EXCEPT ![c] = myDataTransferStatus(@, FALSE)]
    /\ toClient' = [toClient EXCEPT ![c] = << >>]
    /\ toMaster' = [toMaster EXCEPT ![c] = << >>]
    /\ ackDue' = [ackDue EXCEPT ![c] = -1]
    /\ UNCHANGED <<imagePaths, transfer, serverUploadDone, clientsUploadDone,
                   serverUploadCount, counter, lastPackage, texIds, transImages,
                   numSyncedTex, texIndex, workerPc, handled, ackedBy,
                   completedIds, sentTo,
                   unread, batchLog>>
    /\ UNCHANGED outsideTransfer

TransferNext ==
    \/ \E count \in 0..MaxImages : myDropCallback(count)
    \/ \E failed \in SUBSET PackageIds : startDataTransfer(failed)
    \/ transferSetValFalse
    \/ threadWorker
    \/ \E c \in Clients : myDataTransferDecoder(c)
    \/ \E c \in Clients : SendAcknowledge(c)
    \/ \E c \in Clients : myDataTransferAcknowledge(c)
    \/ myPreSyncFun
    \/ \E c \in Clients : LinkUp(c)
    \/ \E c \in Clients : LinkDown(c)

TransferSpec == Init /\ [][TransferNext]_vars

\* The application's completion flag, read per package id.
isComplete(id) == clientsUploadDone /\ id = lastPackage[Master]



\* C12 as stated: isComplete(id) is false until every connected client has
\* acknowledged id, and once it is true it stays true.
C12_CompleteForGood ==
    /\ [](\A id \in PackageIds :
            isComplete(id) => \A c \in Clients : linked[c] => id \in ackedBy[c])
    /\ [][\A id \in PackageIds : isComplete(id) => isComplete(id)']_vars

\* C12, amended: isComplete(id) is false until every client of the cluster, and
\* so every connected one, has acknowledged id; it becomes true at most once
\* for an id, and it returns to false only in the master's next myPreSyncFun,
\* which clears clientsUploadDone together with serverUploadDone.
C12_CompleteUntilConsumed ==
    /\ [](\A id \in PackageIds :
            isComplete(id) => \A c \in Clients : id \in ackedBy[c])
    /\ [][\A id \in PackageIds :
            /\ isComplete(id) /\ ~isComplete(id)'
                 => serverUploadDone /\ ~serverUploadDone' /\ ~clientsUploadDone'
                    /\ lastPackage' = lastPackage
            /\ ~isComplete(id) /\ isComplete(id)' => id \notin completedIds]_vars

C12_Witness ==
    /\ lastPackage[Master] = 1 /\ completedIds = {0, 1}
    /\ ~isComplete(1) /\ ~serverUploadDone
    /\ \A c \in Clients : linked[c]

\* C13: when a client has lost its connection after a transfer was sent to it
\* and before the master has its acknowledgement, the
\* transfer is complete as soon as every client that is still connected has
\* acknowledged it.
C13_CompleteWithoutLostPeer ==
    \A id \in PackageIds :
        (/\ id = lastPackage[Master]
         /\ \E c \in Clients : ~linked[c] /\ id \in sentTo[c] /\ id \notin ackedBy[c]
         /\ \E c \in Clients : linked[c]
         /\ \A c \in Clients : linked[c] => id \in ackedBy[c])
        => id \in completedIds

\* C19: an acknowledgement of package t is sent by a client only after
\* myDataTransferDecoder was called on that client with t, and it carries the
\* id t of the package just handled; so the master's acknowledge callback for
\* (t, client) never precedes the client's handler call for t.
C19_AckAfterHandler ==
    /\ [](\A c \in Clients :
            /\ \A i \in DOMAIN toMaster[c] : toMaster[c][i] \in handled[c]
            /\ ackedBy[c] \subseteq handled[c]
            /\ ackDue[c] # -1 => ackDue[c] \in handled[c] /\ ackDue[c] = lastPackage[c])
    /\ [][\A c \in Clients :
            Len(toMaster'[c]) > Len(toMaster[c])
            => /\ ackDue[c] # -1
               /\ toMaster'[c] = Append(toMaster[c], ackDue[c])]_vars

C19_Witness ==
    \E c \in Clients : ackedBy[c] = {0, 1} /\ handled[c] = {0, 1}

\* C20: the status callback is called once for every connect and every
\* disconnect of a connection and at no other time: the calls for a client
\* alternate between connected and disconnected, the last call tells the
\* state of the connection, and there are as many calls as transitions.
RECURSIVE CallsOf(_)
CallsOf(S) ==
    IF S = {} THEN 0
    ELSE LET c == CHOOSE x \in S : TRUE
         IN  Len(statusLog[c]) + CallsOf(S \ {c})

C20_StatusOncePerTransition ==
    /\ [](\A c \in Clients :
            /\ \A i \in 1..(Len(statusLog[c]) - 1) :
                 statusLog[c][i] # statusLog[c][i + 1]
            /\ statusLog[c] # << >> => statusLog[c][Len(statusLog[c])] = linked[c]
            /\ statusLog[c] = << >> => ~linked[c])
    /\ [](CallsOf(Clients) = linkChanges)
    /\ [][\A c \in Clients :
            statusLog'[c] # statusLog[c] <=> linked'[c] # linked[c]]_vars

C20_Witness ==
    \E c \in Clients : statusLog[c] = <<TRUE, FALSE, TRUE>> /\ linked[c]


(***************************************************************************)
(* The loader thread of the viewer with the cluster connected: every       *)
(* transfer connection is up and stays up, the loader thread, the clients, *)
(* the engine's acknowledgements and the master's frames go on.            *)
(***************************************************************************)
LoaderInit ==
    /\ EngineInit /\ CodecOff /\ TrackingInit /\ ConfigOff /\ ElsewhereOff
    /\ linked = [c \in Clients |-> TRUE]
    /\ statusLog = [c \in Clients |-> <<TRUE>>]
    /\ linkChanges = Cardinality(Clients)
    /\ imagePaths = 0
    /\ transfer = FALSE
    /\ serverUploadDone = FALSE
    /\ clientsUploadDone = FALSE
    /\ serverUploadCount = 0
    /\ counter = 0
    /\ lastPackage = [n \in Nodes |-> -1]
    /\ texIds = 0
    /\ transImages = 0
    /\ numSyncedTex = 0
    /\ texIndex = -1
    /\ workerPc = "idle"
    /\ toClient = [c \in Clients |-> << >>]
    /\ toMaster = [c \in Clients |-> << >>]
    /\ ackDue = [c \in Clients |-> -1]
    /\ handled = [c \in Clients |-> {}]
    /\ ackedBy = [c \in Clients |-> {}]
    /\ completedIds = {}
    /\ sentTo = [c \in Clients |-> {}]
    /\ unread = {}
    /\ batchLog = << >>

\* The steps of the loader thread.
LoaderThread ==
    \/ \E failed \in SUBSET PackageIds : startDataTransfer(failed)
    \/ transferSetValFalse
    \/ threadWorker

\* The steps of client c and of its connection.
ClientSteps(c) ==
    \/ myDataTransferDecoder(c)
    \/ SendAcknowledge(c)
    \/ myDataTransferAcknowledge(c)

LoaderNext ==
    \/ \E count \in 0..MaxImages : myDropCallback(count)
    \/ LoaderThread
    \/ \E c \in Clients : ClientSteps(c)
    \/ myPreSyncFun

LoaderSpec == LoaderInit /\ [][LoaderNext]_vars

\* The loader thread loops ten times a second, the clients and the engine
\* handle what they receive, the master renders frame after frame; nobody has
\* to drop another file.
FairLoaderSpec ==
    /\ LoaderSpec
    /\ WF_vars(LoaderThread)
    /\ \A c \in Clients : WF_vars(ClientSteps(c))
    /\ WF_vars(myPreSyncFun)

\* Image id was handed to transferDataBetweenNodes.
Handed(id) == id <= lastPackage[Master] /\ id \notin unread

\* C29: as long as every file can be read, every image path that the drop
\* callback accepted is eventually handed to transferDataBetweenNodes by the
\* loader thread, whatever the interleaving of the two.
C29_NoDropLost ==
    \/ <>(unread # {})
    \/ \A id \in PackageIds : (imagePaths > id) ~> Handed(id)

\* Every client has acknowledged every package that was sent to it.
AllAcknowledged == \A c \in Clients : sentTo[c] \subseteq ackedBy[c]

\* C30: once the loader thread has started a batch and every client has
\* acknowledged every package that was sent, clientsUploadDone becomes true,
\* and the master's next myPreSyncFun clears both flags and moves texIndex to
\* the first new texture: a batch does not stay in flight for ever.
C30_HandshakeCompletes ==
    /\ (serverUploadDone /\ AllAcknowledged) ~> clientsUploadDone
    /\ (serverUploadDone /\ clientsUploadDone)
         ~> (~serverUploadDone /\ ~clientsUploadDone)
    /\ [][serverUploadDone /\ clientsUploadDone /\ ~serverUploadDone'
            => ~clientsUploadDone' /\ texIndex' = texIds - serverUploadCount]_vars

\* The hand-shake completes when every file of the batch could be read.
HandshakeOfReadFiles ==
    \/ <>(unread # {})
    \/ /\ (serverUploadDone /\ AllAcknowledged) ~> clientsUploadDone
       /\ (serverUploadDone /\ clientsUploadDone)
            ~> (~serverUploadDone /\ ~clientsUploadDone)
       /\ (workerPc # "idle") ~> (~serverUploadDone /\ workerPc = "idle")


\* The number of textures node n has uploaded: texIds.getSize() on the node.
\* A client uploads the image of a package in myDataTransferDecoder.
Textures(n) == IF n = Master THEN texIds ELSE Cardinality(handled[n])

\* myPreSyncFun moves texIndex and numSyncedTex only in a step in which both
\* flags are true, and that step clears both.
IndexMovesWithFlags ==
    [][(texIndex' # texIndex \/ numSyncedTex' # numSyncedTex)
         => /\ serverUploadDone /\ clientsUploadDone
            /\ ~serverUploadDone' /\ ~clientsUploadDone']_vars

\* C31: texIndex and numSyncedTex change only in a myPreSyncFun that finds both
\* flags true and clears them, so texIndex, when it is not -1, is the index of
\* a texture that every node has uploaded.
C31_IndexOfUploadedTexture ==
    /\ IndexMovesWithFlags
    /\ [](texIndex # -1
            => \A n \in Nodes : texIndex >= 0 /\ texIndex < Textures(n))

\* C32: the myPreSyncFun that consumes a batch sets texIndex to the index of
\* the first texture of that batch: the number of textures there were when
\* the batch was started.
C32_IndexOfFirstOfBatch ==
    [][serverUploadDone /\ clientsUploadDone /\ ~serverUploadDone'
         => /\ batchLog # << >>
            /\ texIndex' = batchLog[Len(batchLog)].first]_vars


\* The ids that are on their way: sent to a client and not yet received,
\* handled and not yet acknowledged, or acknowledged and not yet counted.
RECURSIVE Range(_)
Range(q) == IF q = << >> THEN {} ELSE {Head(q)} \cup Range(Tail(q))

Awaited(c) ==
    Range(toClient[c]) \cup Range(toMaster[c])
    \cup (IF ackDue[c] = -1 THEN {} ELSE {ackDue[c]})

\* The batches that myPreSyncFun has not consumed.
Unconsumed == {i \in DOMAIN batchLog : ~batchLog[i].consumed}

\* C33: the loader thread starts a batch only with the transfer flag set and
\* neither serverUploadDone nor clientsUploadDone set, and only after
\* myPreSyncFun has consumed every earlier batch; so at most one batch is not
\* consumed, and every package that awaits its acknowledgement is of that batch.
C33_OneBatchAtATime ==
    /\ [][Len(batchLog') > Len(batchLog)
            => /\ transfer /\ ~serverUploadDone /\ ~clientsUploadDone
               /\ Unconsumed = {}]_vars
    /\ [](Cardinality(Unconsumed) <= 1)
    /\ [](\A c \in Clients :
            Awaited(c) # {}
            => /\ Unconsumed # {}
               /\ Awaited(c) \subseteq Range(batchLog[Len(batchLog)].ids))

C33_Witness ==
    /\ Len(batchLog) = 2
    /\ batchLog[1].consumed /\ ~batchLog[2].consumed
    /\ \A c \in Clients : 1 \in Awaited(c)


\* The ids handed to transferDataBetweenNodes so far, in the order of the calls.
RECURSIVE Transferred(_)
Transferred(n) ==
    IF n = 0 THEN << >> ELSE Transferred(n - 1) \o batchLog[n].ids

\* The ids are handed over in strictly increasing order, so none is used twice.
IdsIncrease ==
    LET ids == Transferred(Len(batchLog))
    IN  \A i \in 1..(Len(ids) - 1) : ids[i] < ids[i + 1]

\* C34: the ids handed to transferDataBetweenNodes increase strictly, and each
\* call of startDataTransfer sends exactly the indices from lastPackage + 1 to
\* the number of image paths less one and sets lastPackage to the last one sent.
C34_IdsOfEachCall ==
    /\ []IdsIncrease
    /\ [][Len(batchLog') > Len(batchLog)
            => LET sent == batchLog'[Len(batchLog')].ids
               IN  /\ sent = IdsFrom(lastPackage[Master] + 1, imagePaths - 1)
                   /\ sent # << >> => lastPackage'[Master] = sent[Len(sent)]]_vars


(***************************************************************************)
(* The tracking manager of trackingmanager.cpp: the main thread builds the *)
(* table of trackers and devices, starts the sampling thread, reads the    *)
(* head device once per frame and stops the thread in the destructor; the  *)
(* sampling thread runs samplingLoop.                                      *)
(***************************************************************************)
MaxTrackers == 2
MaxDevices == 1
MaxPolls == 2

TrackerNames == 1..MaxTrackers

\* Log::Warning and Log::Error: what was logged, and about which name.
Warning(text, name) == [level |-> "Warning", text |-> text, name |-> name]

Error(text, name) == [level |-> "Error", text |-> text, name |-> name]

\* An optional value that is absent, and a value of a tracker that has not
\* been set since the tracker was constructed.
Unset == 0

\* std::make_unique<Tracker>(name): a tracker without devices, its offset,
\* scale and transform as constructed.
Tracker(name) ==
    [name |-> name, devices |-> 0, offset |-> Unset, scale |-> Unset,
     transform |-> Unset]

\* TrackingManager::tracker(name): the tracker of that name, if there is one.
tracker(name) == \E i \in DOMAIN _trackers : _trackers[i].name = name

\* The main thread is between the two writes of addTracker or of
\* addDeviceToCurrentTracker.
MainMutating == mainPc \in {"addTracker", "addDevice"}

\* The sampling thread is in the loops over trackers() and devices().
SamplerInPass == samplerPc \in {"poll", "write", "writePos", "writeRot"}

\* The two threads access the table at the same time with no lock between
\* them: a data race, after which the behaviour of the program is undefined.
\* The model follows the program up to such a state and no further.
Racing == MainMutating /\ SamplerInPass

\* The last tracker with one device more / one VRPN pointer more.
addDevice(table) ==
    [table EXCEPT ![Len(table)].devices = @ + 1]

\* Mutant: no VRPN pointer is added for the device.
emplace_backNothing(pointers) == pointers

emplace_back(pointers) ==
    [pointers EXCEPT ![Len(pointers)] = @ + 1]

\* Mutant: addTracker pushes the tracker without looking for its name.
addTrackerUnchecked(name) ==
    /\ ~Racing
    /\ SGCT_HAS_VRPN
    /\ mainPc = "idle"
    /\ Len(_trackers) < MaxTrackers
    /\ _trackers' = Append(_trackers, Tracker(name))
    /\ mainPc' = "addTracker"
    /\ UNCHANGED <<gTrackers, enabled, _head, _headUser, _isRunning, _samplingTime,
                   _samplingThread, mutexTracking, deviceLock, mainPhase,
                   samplerPc, samplerI, samplerJ, isRunningLocal, polls,
                   sample, transform, snapshot, headTransform, passesAfterStop,
                   passLog>>
    /\ UNCHANGED configVars
    /\ UNCHANGED outsideTracking

\* TrackingManager::addTracker, first write: a tracker of a new name is pushed
\* to _trackers.  (A name that exists gives a warning and changes nothing.)
addTracker(name) ==
    /\ ~Racing
    /\ SGCT_HAS_VRPN
    /\ mainPc = "idle"
    /\ Len(_trackers) < MaxTrackers
    /\ ~tracker(name)
    /\ _trackers' = Append(_trackers, Tracker(name))
    /\ mainPc' = "addTracker"
    /\ UNCHANGED <<gTrackers, enabled, _head, _headUser, _isRunning, _samplingTime,
                   _samplingThread, mutexTracking, deviceLock, mainPhase,
                   samplerPc, samplerI, samplerJ, isRunningLocal, polls,
                   sample, transform, snapshot, headTransform, passesAfterStop,
                   passLog>>
    /\ UNCHANGED configVars
    /\ UNCHANGED outsideTracking

\* TrackingManager::addTracker, second write: gTrackers gets its entry.
addTrackerEnd ==
    /\ ~Racing
    /\ mainPc = "addTracker"
    /\ gTrackers' = Append(gTrackers, 0)
    /\ mainPc' = "idle"
    /\ UNCHANGED <<_trackers, enabled, _head, _headUser, _isRunning, _samplingTime,
                   _samplingThread, mutexTracking, deviceLock, mainPhase,
                   samplerPc, samplerI, samplerJ, isRunningLocal, polls,
                   sample, transform, snapshot, headTransform, passesAfterStop,
                   passLog>>
    /\ UNCHANGED configVars
    /\ UNCHANGED outsideTracking

\* TrackingManager::addDeviceToCurrentTracker, first write: the last tracker
\* gets a device.
addDeviceToCurrentTracker ==
    /\ ~Racing
    /\ SGCT_HAS_VRPN
    /\ mainPc = "idle"
    /\ _trackers # << >>
    /\ _trackers[Len(_trackers)].devices < MaxDevices
    /\ _trackers' = addDevice(_trackers)
    /\ mainPc' = "addDevice"
    /\ UNCHANGED <<gTrackers, enabled, _head, _headUser, _isRunning, _samplingTime,
                   _samplingThread, mutexTracking, deviceLock, mainPhase,
                   samplerPc, samplerI, samplerJ, isRunningLocal, polls,
                   sample, transform, snapshot, headTransform, passesAfterStop,
                   passLog>>
    /\ UNCHANGED configVars
    /\ UNCHANGED outsideTracking

\* TrackingManager::addDeviceToCurrentTracker, second write: the last entry of
\* gTrackers gets the device's VRPN pointers.
addDeviceEnd ==
    /\ ~Racing
    /\ mainPc = "addDevice"
    /\ gTrackers' = emplace_back(gTrackers)
    /\ mainPc' = "idle"
    /\ UNCHANGED <<_trackers, enabled, _head, _headUser, _isRunning, _samplingTime,
                   _samplingThread, mutexTracking, deviceLock, mainPhase,
                   samplerPc, samplerI, samplerJ, isRunningLocal, polls,
                   sample, transform, snapshot, headTransform, passesAfterStop,
                   passLog>>
    /\ UNCHANGED configVars
    /\ UNCHANGED outsideTracking

\* Mutant: the sampling thread is created also after the error.
startSamplingDespiteError(user) ==
    /\ ~Racing
    /\ SGCT_HAS_VRPN
    /\ mainPc = "idle"
    /\ mainPhase = "config"
    /\ mainPhase' = "running"
    /\ IF _trackers = << >>
       THEN UNCHANGED <<_head, _headUser, _samplingThread, samplerPc, logged>>
       ELSE /\ _headUser' = user
            /\ _head' = IF user.trackerName = "known"
                        THEN user.deviceName = "known" /\ _trackers[1].devices > 0
                        ELSE _head
            /\ IF ~_head' /\ user.trackerName # "empty" /\ user.deviceName # "empty"
               THEN /\ logged' =
                         logged \cup {Error("Failed to set head tracker", 1)}
                    /\ _samplingThread' = TRUE
                    /\ samplerPc' = "loop"
               ELSE /\ _samplingThread' = TRUE
                    /\ samplerPc' = "loop"
                    /\ logged' = logged
    /\ UNCHANGED <<_trackers, gTrackers, enabled, _isRunning, _samplingTime,
                   mutexTracking, deviceLock, mainPc, samplerI, samplerJ,
                   isRunningLocal, polls, sample, transform, snapshot,
                   headTransform, passesAfterStop, passLog>>
    /\ UNCHANGED <<SGCT_HAS_VRPN, returned, pending>>
    /\ UNCHANGED outsideTracking

\* TrackingManager::startSampling: nothing without trackers; else the head user
\* is taken, _head is bound to the device the user names if the tracker of the
\* user's tracker name has it; when _head is not bound and neither name is
\* empty, an error is logged and no thread is started; else the sampling
\* thread is created.
startSampling(user) ==
    /\ ~Racing
    /\ SGCT_HAS_VRPN
    /\ mainPc = "idle"
    /\ mainPhase = "config"
    /\ mainPhase' = "running"
    /\ IF _trackers = << >>
       THEN UNCHANGED <<_head, _headUser, _samplingThread, samplerPc, logged>>
       ELSE /\ _headUser' = user
            /\ _head' = IF user.trackerName = "known"
                        THEN user.deviceName = "known" /\ _trackers[1].devices > 0
                        ELSE _head
            /\ IF ~_head' /\ user.trackerName # "empty" /\ user.deviceName # "empty"
               THEN /\ logged' =
                         logged \cup {Error("Failed to set head tracker", 1)}
                    /\ UNCHANGED <<_samplingThread, samplerPc>>
               ELSE /\ _samplingThread' = TRUE
                    /\ samplerPc' = "loop"
                    /\ logged' = logged
    /\ UNCHANGED <<_trackers, gTrackers, enabled, _isRunning, _samplingTime,
                   mutexTracking, deviceLock, mainPc, samplerI, samplerJ,
                   isRunningLocal, polls, sample, transform, snapshot,
                   headTransform, passesAfterStop, passLog>>
    /\ UNCHANGED <<SGCT_HAS_VRPN, returned, pending>>
    /\ UNCHANGED outsideTracking

\* Mutant: the transform of any enabled device is read for the head user.
updateTrackingDevicesAnyDevice ==
    /\ ~Racing
    /\ mainPc = "idle"
    /\ IF _trackers # << >> /\ enabled
       THEN /\ deviceLock = "none"
            /\ deviceLock' = "main"
            /\ mainPc' = "readPos"
       ELSE UNCHANGED <<deviceLock, mainPc>>
    /\ UNCHANGED <<_trackers, gTrackers, enabled, _head, _headUser, _isRunning,
                   _samplingTime, _samplingThread, mutexTracking, mainPhase,
                   samplerPc, samplerI, samplerJ, isRunningLocal, polls,
                   sample, transform, snapshot, headTransform, passesAfterStop,
                   passLog>>
    /\ UNCHANGED configVars
    /\ UNCHANGED outsideTracking

\* TrackingManager::updateTrackingDevices: of all devices of all trackers only
\* a device that is enabled and is _head has its worldTransform() read for the
\* head user; the read takes the lock of the device's state.  With no such
\* device the call changes nothing.
updateTrackingDevices ==
    /\ ~Racing
    /\ mainPc = "idle"
    /\ IF _trackers # << >> /\ enabled /\ _head
       THEN /\ deviceLock = "none"
            /\ deviceLock' = "main"
            /\ mainPc' = "readPos"
       ELSE UNCHANGED <<deviceLock, mainPc>>
    /\ UNCHANGED <<_trackers, gTrackers, enabled, _head, _headUser, _isRunning,
                   _samplingTime, _samplingThread, mutexTracking, mainPhase,
                   samplerPc, samplerI, samplerJ, isRunningLocal, polls,
                   sample, transform, snapshot, headTransform, passesAfterStop,
                   passLog>>
    /\ UNCHANGED configVars
    /\ UNCHANGED outsideTracking

\* worldTransform(): the position is read.
ReadPos ==
    /\ ~Racing
    /\ mainPc = "readPos"
    /\ snapshot' = [snapshot EXCEPT !.pos = transform.pos]
    /\ mainPc' = "readRot"
    /\ UNCHANGED <<_trackers, gTrackers, enabled, _head, _headUser, _isRunning,
                   _samplingTime, _samplingThread, mutexTracking, deviceLock,
                   mainPhase, samplerPc, samplerI, samplerJ, isRunningLocal,
                   polls, sample, transform, headTransform, passesAfterStop,
                   passLog>>
    /\ UNCHANGED configVars
    /\ UNCHANGED outsideTracking

\* worldTransform(): the rotation is read and the lock released; the head user
\* is given the transform that was read.
ReadRot ==
    /\ ~Racing
    /\ mainPc = "readRot"
    /\ snapshot' = [snapshot EXCEPT !.rot = transform.rot]
    /\ headTransform' = snapshot'
    /\ deviceLock' = IF deviceLock = "main" THEN "none" ELSE deviceLock
    /\ mainPc' = "idle"
    /\ UNCHANGED <<_trackers, gTrackers, enabled, _head, _headUser, _isRunning,
                   _samplingTime, _samplingThread, mutexTracking, mainPhase,
                   samplerPc, samplerI, samplerJ, isRunningLocal, polls,
                   sample, transform, passesAfterStop,
                   passLog>>
    /\ UNCHANGED configVars
    /\ UNCHANGED outsideTracking

\* TrackingManager::setEnabled: every tracker's devices are enabled or disabled.
setEnabled(state) ==
    /\ ~Racing
    /\ mainPc = "idle"
    /\ _trackers # << >>
    /\ state # enabled
    /\ enabled' = state
    /\ UNCHANGED <<_trackers, gTrackers, _head, _headUser, _isRunning, _samplingTime,
                   _samplingThread, mutexTracking, deviceLock, mainPc,
                   mainPhase, samplerPc, samplerI, samplerJ, isRunningLocal,
                   polls, sample, transform, snapshot, headTransform,
                   passesAfterStop,
                   passLog>>
    /\ UNCHANGED configVars
    /\ UNCHANGED outsideTracking

\* TrackingManager::samplingTime: mutex::Tracking is taken for the read.
samplingTime ==
    /\ ~Racing
    /\ mainPc = "idle"
    /\ mutexTracking = "none"
    /\ mutexTracking' = "main"
    /\ mainPc' = "samplingTime"
    /\ UNCHANGED <<_trackers, gTrackers, enabled, _head, _headUser, _isRunning,
                   _samplingTime, _samplingThread, deviceLock, mainPhase,
                   samplerPc, samplerI, samplerJ, isRunningLocal, polls,
                   sample, transform, snapshot, headTransform, passesAfterStop,
                   passLog>>
    /\ UNCHANGED configVars
    /\ UNCHANGED outsideTracking

\* TrackingManager::samplingTime: the value is read, the lock released.
samplingTimeReturn ==
    /\ ~Racing
    /\ mainPc = "samplingTime"
    /\ mutexTracking' = "none"
    /\ mainPc' = "idle"
    /\ UNCHANGED <<_trackers, gTrackers, enabled, _head, _headUser, _isRunning,
                   _samplingTime, _samplingThread, deviceLock, mainPhase,
                   samplerPc, samplerI, samplerJ, isRunningLocal, polls,
                   sample, transform, snapshot, headTransform, passesAfterStop,
                   passLog>>
    /\ UNCHANGED configVars
    /\ UNCHANGED outsideTracking

\* TrackingManager::~TrackingManager: mutex::Tracking is taken.
DestructorLock ==
    /\ ~Racing
    /\ mainPc = "idle"
    /\ mutexTracking = "none"
    /\ mutexTracking' = "main"
    /\ mainPc' = "clearRunning"
    /\ UNCHANGED <<_trackers, gTrackers, enabled, _head, _headUser, _isRunning,
                   _samplingTime, _samplingThread, deviceLock, mainPhase,
                   samplerPc, samplerI, samplerJ, isRunningLocal, polls,
                   sample, transform, snapshot, headTransform, passesAfterStop,
                   passLog>>
    /\ UNCHANGED configVars
    /\ UNCHANGED outsideTracking

\* Mutant: the destructor goes on to the join with mutex::Tracking held.
DestructorKeepsLock ==
    /\ ~Racing
    /\ mainPc = "clearRunning"
    /\ _isRunning' = FALSE
    /\ mainPc' = "join"
    /\ UNCHANGED <<_trackers, gTrackers, enabled, _head, _headUser, _samplingTime,
                   _samplingThread, mutexTracking, deviceLock, mainPhase,
                   samplerPc, samplerI, samplerJ, isRunningLocal, polls,
                   sample, transform, snapshot, headTransform, passesAfterStop,
                   passLog>>
    /\ UNCHANGED configVars
    /\ UNCHANGED outsideTracking

\* ~TrackingManager: _isRunning is cleared and the lock released at the end of
\* its block.
DestructorClearRunning ==
    /\ ~Racing
    /\ mainPc = "clearRunning"
    /\ _isRunning' = FALSE
    /\ mutexTracking' = "none"
    /\ mainPc' = "join"
    /\ UNCHANGED <<_trackers, gTrackers, enabled, _head, _headUser, _samplingTime,
                   _samplingThread, deviceLock, mainPhase, samplerPc,
                   samplerI, samplerJ, isRunningLocal, polls, sample,
                   transform, snapshot, headTransform, passesAfterStop,
                   passLog>>
    /\ UNCHANGED configVars
    /\ UNCHANGED outsideTracking

\* ~TrackingManager: the sampling thread, if there is one, is joined: the join
\* returns when the thread has left samplingLoop.
DestructorJoin ==
    /\ ~Racing
    /\ mainPc = "join"
    /\ _samplingThread => samplerPc = "exited"
    /\ _samplingThread' = FALSE
    /\ samplerPc' = IF _samplingThread THEN "joined" ELSE samplerPc
    /\ mainPc' = "clear"
    /\ UNCHANGED <<_trackers, gTrackers, enabled, _head, _headUser, _isRunning,
                   _samplingTime, mutexTracking, deviceLock, mainPhase,
                   samplerI, samplerJ, isRunningLocal, polls, sample,
                   transform, snapshot, headTransform, passesAfterStop,
                   passLog>>
    /\ UNCHANGED configVars
    /\ UNCHANGED outsideTracking

\* ~TrackingManager: _trackers and gTrackers are cleared.
DestructorClear ==
    /\ ~Racing
    /\ mainPc = "clear"
    /\ _trackers' = << >>
    /\ gTrackers' = << >>
    /\ mainPc' = "destroyed"
    /\ UNCHANGED <<enabled, _head, _headUser, _isRunning, _samplingTime,
                   _samplingThread, mutexTracking, deviceLock, mainPhase,
                   samplerPc, samplerI, samplerJ, isRunningLocal, polls,
                   sample, transform, snapshot, headTransform, passesAfterStop,
                   passLog>>
    /\ UNCHANGED configVars
    /\ UNCHANGED outsideTracking

\* samplingLoop: a pass begins (the time is taken, i and j start).
SamplerPassStart ==
    /\ ~Racing
    /\ samplerPc = "loop"
    /\ samplerI' = 1
    /\ samplerJ' = 1
    /\ passesAfterStop' = IF _isRunning THEN passesAfterStop ELSE passesAfterStop + 1
    /\ passLog' = << >>
    /\ samplerPc' = "poll"
    /\ UNCHANGED <<_trackers, gTrackers, enabled, _head, _headUser, _isRunning,
                   _samplingTime, _samplingThread, mutexTracking, deviceLock,
                   mainPc, mainPhase, isRunningLocal, polls, sample,
                   transform, snapshot, headTransform>>
    /\ UNCHANGED configVars
    /\ UNCHANGED outsideTracking

\* Device j of tracker i, as the pass comes to it: its mainloops are called
\* (polled) or it is passed over.
Visit(i, j, polled) == [i |-> i, j |-> j, polled |-> polled]

\* Mutant: the pass does not look at isEnabled.
SamplerPollAll ==
    /\ ~Racing
    /\ samplerPc = "poll"
    /\ IF samplerI > Len(_trackers)
       THEN /\ samplerPc' = "isRunning"
            /\ UNCHANGED <<samplerI, samplerJ, polls, sample, passLog>>
       ELSE IF samplerJ > _trackers[samplerI].devices
       THEN /\ samplerI' = samplerI + 1
            /\ samplerJ' = 1
            /\ UNCHANGED <<samplerPc, polls, sample, passLog>>
       ELSE /\ passLog' = Append(passLog, Visit(samplerI, samplerJ, TRUE))
            /\ \/ /\ samplerI = 1 /\ samplerJ = 1 /\ polls < MaxPolls
                  /\ polls' = polls + 1
                  /\ sample' = polls + 1
                  /\ samplerPc' = "write"
                  /\ UNCHANGED <<samplerI, samplerJ>>
               \/ /\ samplerJ' = samplerJ + 1
                  /\ UNCHANGED <<samplerPc, samplerI, polls, sample>>
    /\ UNCHANGED <<_trackers, gTrackers, enabled, _head, _headUser, _isRunning,
                   _samplingTime, _samplingThread, mutexTracking, deviceLock,
                   mainPc, mainPhase, isRunningLocal, transform, snapshot,
                   headTransform, passesAfterStop>>
    /\ UNCHANGED configVars
    /\ UNCHANGED outsideTracking

\* samplingLoop: the loops over trackers() and devices(): past the last tracker
\* the pass is over; past the last device the next tracker is taken; a device
\* that is not enabled is skipped; else the mainloop of the device's sensor runs
\* and either calls updateTracker with a new poll result or has nothing new.
SamplerPoll ==
    /\ ~Racing
    /\ samplerPc = "poll"
    /\ IF samplerI > Len(_trackers)
       THEN /\ samplerPc' = "isRunning"
            /\ UNCHANGED <<samplerI, samplerJ, polls, sample, passLog>>
       ELSE IF samplerJ > _trackers[samplerI].devices
       THEN /\ samplerI' = samplerI + 1
            /\ samplerJ' = 1
            /\ UNCHANGED <<samplerPc, polls, sample, passLog>>
       ELSE IF ~enabled
       THEN /\ samplerJ' = samplerJ + 1
            /\ passLog' = Append(passLog, Visit(samplerI, samplerJ, FALSE))
            /\ UNCHANGED <<samplerPc, samplerI, polls, sample>>
       ELSE /\ passLog' = Append(passLog, Visit(samplerI, samplerJ, TRUE))
            /\ \/ /\ samplerI = 1 /\ samplerJ = 1 /\ polls < MaxPolls
                  /\ polls' = polls + 1
                  /\ sample' = polls + 1
                  /\ samplerPc' = "write"
                  /\ UNCHANGED <<samplerI, samplerJ>>
               \/ /\ samplerJ' = samplerJ + 1
                  /\ UNCHANGED <<samplerPc, samplerI, polls, sample>>
    /\ UNCHANGED <<_trackers, gTrackers, enabled, _head, _headUser, _isRunning,
                   _samplingTime, _samplingThread, mutexTracking, deviceLock,
                   mainPc, mainPhase, isRunningLocal, transform, snapshot,
                   headTransform, passesAfterStop>>
    /\ UNCHANGED configVars
    /\ UNCHANGED outsideTracking

\* Mutant: the callback writes the transform without the device's lock.
updateTrackerUnlocked ==
    /\ ~Racing
    /\ samplerPc = "write"
    /\ samplerPc' = "writePos"
    /\ UNCHANGED <<_trackers, gTrackers, enabled, _head, _headUser, _isRunning,
                   _samplingTime, _samplingThread, mutexTracking, deviceLock,
                   mainPc, mainPhase, samplerI, samplerJ, isRunningLocal,
                   polls, sample, transform, snapshot, headTransform,
                   passesAfterStop,
                   passLog>>
    /\ UNCHANGED configVars
    /\ UNCHANGED outsideTracking

\* updateTracker: device->setSensorTransform(pos, rotation) takes the lock of the
\* device's state.
updateTracker ==
    /\ ~Racing
    /\ samplerPc = "write"
    /\ deviceLock = "none"
    /\ deviceLock' = "sampler"
    /\ samplerPc' = "writePos"
    /\ UNCHANGED <<_trackers, gTrackers, enabled, _head, _headUser, _isRunning,
                   _samplingTime, _samplingThread, mutexTracking, mainPc,
                   mainPhase, samplerI, samplerJ, isRunningLocal, polls,
                   sample, transform, snapshot, headTransform, passesAfterStop,
                   passLog>>
    /\ UNCHANGED configVars
    /\ UNCHANGED outsideTracking

\* setSensorTransform: the position of the poll result is written.
WritePos ==
    /\ ~Racing
    /\ samplerPc = "writePos"
    /\ transform' = [transform EXCEPT !.pos = sample]
    /\ samplerPc' = "writeRot"
    /\ UNCHANGED <<_trackers, gTrackers, enabled, _head, _headUser, _isRunning,
                   _samplingTime, _samplingThread, mutexTracking, deviceLock,
                   mainPc, mainPhase, samplerI, samplerJ, isRunningLocal,
                   polls, sample, snapshot, headTransform, passesAfterStop,
                   passLog>>
    /\ UNCHANGED configVars
    /\ UNCHANGED outsideTracking

\* setSensorTransform: the rotation of the poll result is written and the lock
\* released; the loop goes on to the next device.
WriteRot ==
    /\ ~Racing
    /\ samplerPc = "writeRot"
    /\ transform' = [transform EXCEPT !.rot = sample]
    /\ deviceLock' = IF deviceLock = "sampler" THEN "none" ELSE deviceLock
    /\ samplerJ' = samplerJ + 1
    /\ samplerPc' = "poll"
    /\ UNCHANGED <<_trackers, gTrackers, enabled, _head, _headUser, _isRunning,
                   _samplingTime, _samplingThread, mutexTracking, mainPc,
                   mainPhase, samplerI, isRunningLocal, polls, sample,
                   snapshot, headTransform, passesAfterStop,
                   passLog>>
    /\ UNCHANGED configVars
    /\ UNCHANGED outsideTracking

\* samplingLoop: tm->isRunning() takes mutex::Tracking.
isRunningLock ==
    /\ ~Racing
    /\ samplerPc = "isRunning"
    /\ mutexTracking = "none"
    /\ mutexTracking' = "sampler"
    /\ samplerPc' = "isRunningRead"
    /\ UNCHANGED <<_trackers, gTrackers, enabled, _head, _headUser, _isRunning,
                   _samplingTime, _samplingThread, deviceLock, mainPc,
                   mainPhase, samplerI, samplerJ, isRunningLocal, polls,
                   sample, transform, snapshot, headTransform, passesAfterStop,
                   passLog>>
    /\ UNCHANGED configVars
    /\ UNCHANGED outsideTracking

\* Mutant: the loop does not see the flag that the destructor cleared.
isRunningStale ==
    /\ ~Racing
    /\ samplerPc = "isRunningRead"
    /\ isRunningLocal' = TRUE
    /\ mutexTracking' = "none"
    /\ samplerPc' = "setSamplingTime"
    /\ UNCHANGED <<_trackers, gTrackers, enabled, _head, _headUser, _isRunning,
                   _samplingTime, _samplingThread, deviceLock, mainPc,
                   mainPhase, samplerI, samplerJ, polls, sample, transform,
                   snapshot, headTransform, passesAfterStop,
                   passLog>>
    /\ UNCHANGED configVars
    /\ UNCHANGED outsideTracking

\* TrackingManager::isRunning: _isRunning is read, the lock released.
isRunning ==
    /\ ~Racing
    /\ samplerPc = "isRunningRead"
    /\ isRunningLocal' = _isRunning
    /\ mutexTracking' = "none"
    /\ samplerPc' = "setSamplingTime"
    /\ UNCHANGED <<_trackers, gTrackers, enabled, _head, _headUser, _isRunning,
                   _samplingTime, _samplingThread, deviceLock, mainPc,
                   mainPhase, samplerI, samplerJ, polls, sample, transform,
                   snapshot, headTransform, passesAfterStop,
                   passLog>>
    /\ UNCHANGED configVars
    /\ UNCHANGED outsideTracking

\* samplingLoop: tm->setSamplingTime(...) takes mutex::Tracking.
setSamplingTimeLock ==
    /\ ~Racing
    /\ samplerPc = "setSamplingTime"
    /\ mutexTracking = "none"
    /\ mutexTracking' = "sampler"
    /\ samplerPc' = "setSamplingTimeWrite"
    /\ UNCHANGED <<_trackers, gTrackers, enabled, _head, _headUser, _isRunning,
                   _samplingTime, _samplingThread, deviceLock, mainPc,
                   mainPhase, samplerI, samplerJ, isRunningLocal, polls,
                   sample, transform, snapshot, headTransform, passesAfterStop,
                   passLog>>
    /\ UNCHANGED configVars
    /\ UNCHANGED outsideTracking

\* TrackingManager::setSamplingTime: _samplingTime is written (a pass has been
\* timed), the lock released.
setSamplingTime ==
    /\ ~Racing
    /\ samplerPc = "setSamplingTimeWrite"
    /\ _samplingTime' = 1
    /\ mutexTracking' = "none"
    /\ samplerPc' = "sleep"
    /\ UNCHANGED <<_trackers, gTrackers, enabled, _head, _headUser, _isRunning,
                   _samplingThread, deviceLock, mainPc, mainPhase, samplerI,
                   samplerJ, isRunningLocal, polls, sample, transform,
                   snapshot, headTransform, passesAfterStop,
                   passLog>>
    /\ UNCHANGED configVars
    /\ UNCHANGED outsideTracking

\* samplingLoop: the thread sleeps for a millisecond.
vrpn_SleepMsecs ==
    /\ ~Racing
    /\ samplerPc = "sleep"
    /\ samplerPc' = "check"
    /\ UNCHANGED <<_trackers, gTrackers, enabled, _head, _headUser, _isRunning,
                   _samplingTime, _samplingThread, mutexTracking, deviceLock,
                   mainPc, mainPhase, samplerI, samplerJ, isRunningLocal,
                   polls, sample, transform, snapshot, headTransform,
                   passesAfterStop,
                   passLog>>
    /\ UNCHANGED configVars
    /\ UNCHANGED outsideTracking

\* samplingLoop: the loop ends when isRunning was false, else the next pass begins.
SamplerCheck ==
    /\ ~Racing
    /\ samplerPc = "check"
    /\ samplerPc' = IF isRunningLocal THEN "loop" ELSE "exited"
    /\ UNCHANGED <<_trackers, gTrackers, enabled, _head, _headUser, _isRunning,
                   _samplingTime, _samplingThread, mutexTracking, deviceLock,
                   mainPc, mainPhase, samplerI, samplerJ, isRunningLocal,
                   polls, sample, transform, snapshot, headTransform,
                   passesAfterStop,
                   passLog>>
    /\ UNCHANGED configVars
    /\ UNCHANGED outsideTracking

MainNext ==
    \/ \E name \in TrackerNames : addTracker(name)
    \/ addTrackerEnd
    \/ addDeviceToCurrentTracker
    \/ addDeviceEnd
    \/ \E user \in HeadUsers : startSampling(user)
    \/ updateTrackingDevices
    \/ ReadPos
    \/ ReadRot
    \/ \E state \in BOOLEAN : setEnabled(state)
    \/ samplingTime
    \/ samplingTimeReturn
    \/ DestructorLock
    \/ DestructorClearRunning
    \/ DestructorJoin
    \/ DestructorClear

SamplerNext ==
    \/ SamplerPassStart
    \/ SamplerPoll
    \/ updateTracker
    \/ WritePos
    \/ WriteRot
    \/ isRunningLock
    \/ isRunning
    \/ setSamplingTimeLock
    \/ setSamplingTime
    \/ vrpn_SleepMsecs
    \/ SamplerCheck

TrackingNext == MainNext \/ SamplerNext

TrackingSpec == Init /\ [][TrackingNext]_vars

\* The sampling thread is scheduled as long as it can run, and the destructor,
\* once entered, runs on to its end.
DestructorNext ==
    DestructorClearRunning \/ DestructorJoin \/ DestructorClear

FairTrackingSpec ==
    TrackingSpec /\ WF_vars(SamplerNext) /\ WF_vars(DestructorNext)

\* The devices of the table in the order of the loops of samplingLoop.
RECURSIVE DevicesFrom(_, _, _)
DevicesFrom(table, i, j) ==
    IF i > Len(table) THEN << >>
    ELSE IF j > table[i].devices THEN DevicesFrom(table, i + 1, 1)
    ELSE <<[i |-> i, j |-> j]>> \o DevicesFrom(table, i, j + 1)

\* The devices a pass has come to, polled or not.
Visited == [k \in DOMAIN passLog |-> [i |-> passLog[k].i, j |-> passLog[k].j]]

\* C35: a pass of samplingLoop comes to every device once, in the order of the
\* table; it calls the mainloops of a device exactly when the device is enabled
\* at that moment and passes over a disabled device.  After the pass the
\* sampling time is stored, then the thread sleeps, and only then the next
\* pass begins or the loop ends.
C35_PassPollsEnabledOnce ==
    /\ [][samplerPc = "poll" /\ samplerPc' = "isRunning"
            => Visited = DevicesFrom(_trackers, 1, 1)]_vars
    /\ [][Len(passLog') > Len(passLog)
            => /\ passLog' = Append(passLog, Visit(samplerI, samplerJ, enabled))
               /\ samplerPc = "poll"]_vars
    /\ [][samplerPc' = "sleep" /\ samplerPc # "sleep"
            => samplerPc = "setSamplingTimeWrite" /\ _samplingTime' = 1]_vars
    /\ [][samplerPc' = "check" /\ samplerPc # "check" => samplerPc = "sleep"]_vars
    /\ [][samplerPc' \in {"loop", "exited"} /\ samplerPc' # samplerPc
            => samplerPc = "check" \/ (samplerPc = "none" /\ samplerPc' = "loop")]_vars

C35_Witness ==
    /\ samplerPc = "sleep"
    /\ Len(passLog) = 2
    /\ passLog[1].polled /\ ~passLog[2].polled
    /\ _samplingTime = 1


\* C14: once the destructor has cleared _isRunning under mutex::Tracking, the
\* sampling thread begins at most one further pass after the clearing, leaves
\* samplingLoop, and the destructor's join returns; the tables are cleared only
\* when the thread is gone.
C14_StopWithinOnePass ==
    /\ [](passesAfterStop <= 1)
    /\ [](mainPc \in {"clear", "destroyed"} => samplerPc \in {"none", "joined"})
    /\ (~_isRunning ~> mainPc = "destroyed")

C14_Witness ==
    /\ mainPc = "destroyed"
    /\ samplerPc = "joined"
    /\ passesAfterStop = 1
    /\ polls > 0

\* C15: no thread sleeps, joins or waits with mutex::Tracking or a device's
\* lock held: the sampling thread holds mutex::Tracking only inside isRunning()
\* and setSamplingTime(), the main thread only inside the destructor's first
\* block and samplingTime(); whoever holds a lock that the other thread waits
\* for can run on and release it, so the locks cannot deadlock.
SamplerWaitsForTracking ==
    samplerPc \in {"isRunning", "setSamplingTime"} /\ mutexTracking = "main"

C15_NoLockWhileBlocked ==
    /\ mutexTracking = "sampler"
           => samplerPc \in {"isRunningRead", "setSamplingTimeWrite"}
    /\ mutexTracking = "main" => mainPc \in {"clearRunning", "samplingTime"}
    /\ deviceLock = "sampler" => samplerPc \in {"writePos", "writeRot"}
    /\ deviceLock = "main" => mainPc \in {"readPos", "readRot"}
    /\ samplerPc \in {"sleep", "check", "exited", "joined"}
           => mutexTracking # "sampler" /\ deviceLock # "sampler"
    /\ mainPc = "join" => mutexTracking # "main" /\ deviceLock # "main"
    /\ SamplerWaitsForTracking
           => ENABLED (DestructorClearRunning \/ samplingTimeReturn)
    /\ (samplerPc = "write" /\ deviceLock = "main") => ENABLED (ReadPos \/ ReadRot)
    /\ (mainPc = "join" /\ _samplingThread /\ samplerPc # "exited")
           => ENABLED SamplerNext

C15_Witness ==
    /\ mainPc = "join"
    /\ samplerPc = "isRunningRead"
    /\ mutexTracking = "sampler"
    /\ ~_isRunning

\* C16: the sampling thread's reads of the tracker and device table (_trackers
\* and gTrackers, indexed by i and j in samplingLoop) are never concurrent with
\* a mutation of the table by the main thread.  The code takes no lock around
\* either, so this does not hold: addTracker and addDeviceToCurrentTracker can
\* run, between their two push_backs, while the sampling thread is in a pass.
C16_TableAccessExclusive ==
    ~(MainMutating /\ SamplerInPass)

\* The part of C16 that the code does keep: the destructor clears the table
\* only after the sampling thread has been joined.
ClearAfterJoin ==
    mainPc = "clear" => ~SamplerInPass

\* C17: the transform that updateTrackingDevices hands to the head user is
\* never torn: its position and its rotation come from the same poll result,
\* also when the sampling thread has a new result to write during the read.
C17_NoTornTransform ==
    /\ headTransform.pos = headTransform.rot
    /\ mainPc = "idle" => snapshot = headTransform
    /\ mainPc = "readRot" => snapshot.pos = transform.rot

C17_Witness ==
    /\ headTransform.pos > 0
    /\ mainPc = "readRot"
    /\ samplerPc = "write"
    /\ sample # snapshot.pos

\* The main thread is inside updateTrackingDevices, reading the head device.
InUpdate == mainPc \in {"readPos", "readRot"}

\* C38: the head user's transform changes only in updateTrackingDevices with
\* the head device bound and enabled, and then becomes the transform the
\* device has; a call without such a device leaves the user's transform as it
\* is, and no step of the call changes a device's transform, the enabled flags,
\* the tables or the head binding.
C38_HeadTransformOnly ==
    [][/\ headTransform' # headTransform
            => /\ mainPc = "readRot" /\ mainPc' = "idle"
               /\ _head /\ enabled /\ _trackers # << >>
       /\ (mainPc = "readRot" /\ mainPc' = "idle")
            => /\ _head /\ enabled
               /\ headTransform' = transform
       /\ (InUpdate \/ InUpdate')
            => /\ transform' = transform
               /\ UNCHANGED <<_trackers, gTrackers, enabled, _head, _headUser>>
      ]_vars

C38_Witness ==
    /\ mainPc = "idle"
    /\ _head /\ enabled
    /\ headTransform.pos > 0
    /\ headTransform = transform
    /\ polls > 1


\* C18: a terminate call on a node whose thread is blocked in the barrier
\* releases the thread in the same step, as TimedOut, however much of the sync
\* timeout is left; the released thread does not go back to waiting (only a
\* node that was told to terminate in the middle of its draw, so not blocked,
\* still enters the rendezvous after the draw), and a render loop ends, and
\* its threads are joined, only from outside the barrier.
TerminateCalled(n) == ~_shouldTerminate[n] /\ _shouldTerminate'[n]

NoVRPN == Warning("SGCT compiled without VRPN support", 0)

\* A tracker of the cluster configuration: its name, the number of its
\* devices, and its optional offset, scale and transformation.
TrackerConfigs ==
    [name : TrackerNames, devices : 0..MaxDevices, offset : {Unset, 1},
     scale : {Unset, 2}, transformation : {Unset, 3}]

ConfigInit ==
    /\ EngineInit /\ CodecOff /\ TransferInit /\ TrackingInit /\ ElsewhereOff
    /\ SGCT_HAS_VRPN \in BOOLEAN
    /\ logged = {}
    /\ returned = [fn |-> "none", value |-> "none"]
    /\ pending = "none"

\* TrackingManager::addTracker with a name that is registered: a warning, and
\* nothing else.
addTrackerExists(name) ==
    /\ ~Racing
    /\ SGCT_HAS_VRPN
    /\ mainPc = "idle"
    /\ tracker(name)
    /\ logged' = logged \cup {Warning("already exists", name)}
    /\ returned' = [fn |-> "addTracker", value |-> "void"]
    /\ UNCHANGED <<SGCT_HAS_VRPN, pending>>
    /\ UNCHANGED trackingVars
    /\ UNCHANGED outsideTracking

\* applyDevice for each of the n devices of the configuration: each is added
\* to the last tracker of the table, and its VRPN pointers to the last entry
\* of gTrackers.
RECURSIVE applyDevice(_, _)
applyDevice(table, n) ==
    IF n = 0 THEN table ELSE applyDevice(addDevice(table), n - 1)

RECURSIVE applyDevicePointers(_, _)
applyDevicePointers(pointers, n) ==
    IF n = 0 THEN pointers
             ELSE applyDevicePointers(emplace_back(pointers), n - 1)

\* _trackers.back()->setOffset / setScale / setTransform, each if the
\* configuration has the value.
setOffset(table, t) ==
    IF t.offset = Unset THEN table
    ELSE [table EXCEPT ![Len(table)].offset = t.offset]

setScale(table, t) ==
    IF t.scale = Unset THEN table
    ELSE [table EXCEPT ![Len(table)].scale = t.scale]

setTransform(table, t) ==
    IF t.transformation = Unset THEN table
    ELSE [table EXCEPT ![Len(table)].transform = t.transformation]

\* The number of devices the last tracker has after the configuration t has
\* been applied.
DevicesAfter(t) ==
    t.devices + (IF tracker(t.name) /\ _trackers # << >>
                   THEN _trackers[Len(_trackers)].devices ELSE 0)

\* TrackingManager::applyTracker, the call of addTracker(tracker.name) at its
\* head: a new name is registered, a registered name gives a warning; without
\* VRPN there is only the warning of the build.
applyTracker(t) ==
    /\ ~Racing
    /\ mainPc = "idle"
    /\ mainPhase = "config"
    /\ DevicesAfter(t) <= MaxDevices
    /\ IF ~SGCT_HAS_VRPN
       THEN /\ logged' = logged \cup {NoVRPN}
            /\ UNCHANGED <<_trackers, gTrackers>>
       ELSE IF tracker(t.name)
       THEN /\ logged' = logged \cup {Warning("already exists", t.name)}
            /\ UNCHANGED <<_trackers, gTrackers>>
       ELSE /\ Len(_trackers) < MaxTrackers
            /\ _trackers' = Append(_trackers, Tracker(t.name))
            /\ gTrackers' = Append(gTrackers, 0)
            /\ logged' = logged
    /\ pending' = t
    /\ mainPc' = "applyTracker"
    /\ UNCHANGED <<SGCT_HAS_VRPN, returned>>
    /\ UNCHANGED <<enabled, _head, _headUser, _isRunning, _samplingTime, _samplingThread,
                   mutexTracking, deviceLock, mainPhase, samplerPc, samplerI,
                   samplerJ, isRunningLocal, polls, sample, transform,
                   snapshot, headTransform, passesAfterStop,
                   passLog>>
    /\ UNCHANGED outsideTracking

\* The configuration asks for a value to be set on _trackers.back().
SetsOnBack(t) ==
    t.offset # Unset \/ t.scale # Unset \/ t.transformation # Unset

\* TrackingManager::applyTracker after the call of addTracker: the devices of
\* the configuration are applied to the last tracker of the table, and offset,
\* scale and transformation set on it.  Without VRPN the table is empty: every
\* device gives the warning of the build, and a value to set takes back() of
\* an empty vector, which is undefined: the call may abort the program or
\* return.
applyTrackerRest ==
    /\ ~Racing
    /\ mainPc = "applyTracker"
    /\ IF SGCT_HAS_VRPN
       THEN /\ _trackers' =
                setTransform(setScale(setOffset(
                    applyDevice(_trackers, pending.devices),
                    pending), pending), pending)
            /\ gTrackers' = applyDevicePointers(gTrackers, pending.devices)
            /\ mainPc' = "idle"
            /\ logged' = logged
       ELSE /\ UNCHANGED <<_trackers, gTrackers>>
            /\ logged' = IF pending.devices > 0 THEN logged \cup {NoVRPN}
                                               ELSE logged
            /\ IF SetsOnBack(pending)
               THEN mainPc' \in {"aborted", "idle"}
               ELSE mainPc' = "idle"
    /\ pending' = "none"
    /\ returned' = [fn |-> "applyTracker", value |-> "void"]
    /\ UNCHANGED SGCT_HAS_VRPN
    /\ UNCHANGED <<enabled, _head, _headUser, _isRunning, _samplingTime, _samplingThread,
                   mutexTracking, deviceLock, mainPhase, samplerPc, samplerI,
                   samplerJ, isRunningLocal, polls, sample, transform,
                   snapshot, headTransform, passesAfterStop,
                   passLog>>
    /\ UNCHANGED outsideTracking

\* TrackingManager::addDeviceToCurrentTracker before any tracker is added:
\* _trackers.back() of an empty vector is undefined; the call may abort the
\* program or return without having added anything.
addDeviceToNoTracker ==
    /\ ~Racing
    /\ SGCT_HAS_VRPN
    /\ mainPc = "idle"
    /\ mainPhase = "config"
    /\ _trackers = << >>
    /\ mainPc' \in {"aborted", "idle"}
    /\ returned' = [fn |-> "addDeviceToCurrentTracker", value |-> "void"]
    /\ UNCHANGED <<SGCT_HAS_VRPN, logged, pending>>
    /\ UNCHANGED <<_trackers, gTrackers, enabled, _head, _headUser, _isRunning,
                   _samplingTime, _samplingThread, mutexTracking, deviceLock,
                   mainPhase, samplerPc, samplerI, samplerJ, isRunningLocal,
                   polls, sample, transform, snapshot, headTransform,
                   passesAfterStop, passLog>>
    /\ UNCHANGED outsideTracking

\* The functions of the tracking manager that, in a build without VRPN, log a
\* warning and return: isRunning returns false, samplingTime 0.0.
WithoutVRPN ==
    {"addTracker", "addDeviceToCurrentTracker", "startSampling", "isRunning",
     "samplingTime", "setSamplingTime", "setEnabled", "updateTrackingDevices"}

ReturnWithoutVRPN(fn) ==
    IF fn = "isRunning" THEN "false"
    ELSE IF fn = "samplingTime" THEN "0.0" ELSE "void"

\* A call of one of these functions in a build without VRPN.
withoutVRPN(fn) ==
    /\ ~SGCT_HAS_VRPN
    /\ mainPc = "idle"
    /\ logged' = logged \cup {NoVRPN}
    /\ returned' = [fn |-> fn, value |-> ReturnWithoutVRPN(fn)]
    /\ UNCHANGED <<SGCT_HAS_VRPN, pending>>
    /\ UNCHANGED trackingVars
    /\ UNCHANGED outsideTracking

ConfigNext ==
    \/ \E name \in TrackerNames : addTracker(name)
    \/ addTrackerEnd
    \/ \E name \in TrackerNames : addTrackerExists(name)
    \/ addDeviceToCurrentTracker
    \/ addDeviceToNoTracker
    \/ addDeviceEnd
    \/ \E t \in TrackerConfigs : applyTracker(t)
    \/ applyTrackerRest
    \/ \E user \in HeadUsers : startSampling(user)
    \/ \E fn \in WithoutVRPN : withoutVRPN(fn)

ConfigSpec == ConfigInit /\ [][ConfigNext]_vars

\* C21: the names of the registered trackers are pairwise distinct, and the
\* table of VRPN pointers has an entry for each of them; a step that reports
\* that a tracker already exists adds no tracker, leaves both tables as they
\* are, and logs a warning, never an error.
AlreadyExists == {Warning("already exists", name) : name \in TrackerNames}

C21_TrackerNamesDistinct ==
    /\ [](\A i, j \in DOMAIN _trackers :
            i # j => _trackers[i].name # _trackers[j].name)
    /\ [](mainPc # "addTracker" => Len(gTrackers) = Len(_trackers))
    /\ [][(logged' \ logged) \cap AlreadyExists # {}
            => /\ _trackers' = _trackers
               /\ gTrackers' = gTrackers
               /\ \A e \in logged' \ logged : e.level = "Warning"]_vars
    /\ [](\A e \in logged : e.level = "Error" => e.text # "already exists")

C21_Witness ==
    /\ Len(_trackers) = MaxTrackers
    /\ returned.fn = "addTracker"
    /\ \A name \in TrackerNames : Warning("already exists", name) \in logged

\* C22: a pose callback that runs for a disabled device changes no state of
\* the device.  samplingLoop skips the mainloop of a device that is disabled
\* when it looks, but updateTracker itself does not look: when the device is
\* disabled after the loop has looked and before the callback writes, the
\* transform of the disabled device is written all the same.
CallbackWrites == samplerPc \in {"write", "writePos", "writeRot"}

C22_CallbackNoOp ==
    [][(CallbackWrites /\ ~enabled) => transform' = transform]_vars

\* C23: startSampling is a no-op when no devices are configured: it starts no
\* sampling thread and changes nothing of the manager.  The code returns at
\* once only when there is no tracker; with a tracker that has no device, and
\* a head user that names no head device, it goes on and starts the thread.
NoDevices == \A i \in DOMAIN _trackers : _trackers[i].devices = 0

StartSamplingCalled == mainPhase = "config" /\ mainPhase' = "running"

C23_StartWithoutDevices ==
    [][(StartSamplingCalled /\ NoDevices)
         => /\ _samplingThread' = _samplingThread
            /\ samplerPc' = samplerPc
            /\ UNCHANGED tableVars]_vars

\* The part of C23 that the code keeps: without a tracker nothing happens.
StartWithoutTrackers ==
    [][(StartSamplingCalled /\ _trackers = << >>)
         => UNCHANGED <<tableVars, _samplingThread, samplerPc, logged>>]_vars

\* What C24 lists holds in a build without VRPN: nothing is registered, no
\* thread is started, only warnings are logged, isRunning returns false and
\* samplingTime 0.0.
DegradedWithoutVRPN ==
    ~SGCT_HAS_VRPN
        => /\ _trackers = << >> /\ gTrackers = << >>
           /\ ~_samplingThread /\ samplerPc = "none"
           /\ \A e \in logged : e = NoVRPN
           /\ returned.fn = "isRunning" => returned.value = "false"
           /\ returned.fn = "samplingTime" => returned.value = "0.0"

\* C24: in a build without VRPN every tracking operation is a no-op with a
\* warning, and none aborts the application.  applyTracker is not such a
\* no-op: for a tracker of the configuration with an offset, a scale or a
\* transformation it takes _trackers.back() of the table, which without VRPN
\* is empty.
C24_NoOpWithoutVRPN ==
    DegradedWithoutVRPN /\ (~SGCT_HAS_VRPN => mainPc # "aborted")

\* C28: applyTracker with a name that is already registered leaves every
\* tracker of the table as it was.  The code goes on after the warning of
\* addTracker: the devices of the configuration are added to the last tracker
\* of the table, and offset, scale and transformation are set on it.
\* (The warning about a name is in the log exactly when the name was in the
\* table before the call.)
DuplicateApplied ==
    /\ SGCT_HAS_VRPN
    /\ mainPc = "applyTracker"
    /\ Warning("already exists", pending.name) \in logged

C28_DuplicateApplyChangesNothing ==
    [][DuplicateApplied => (_trackers' = _trackers /\ gTrackers' = gTrackers)]_vars


\* C36: when no call is in progress, gTrackers has one row for every
\* registered tracker and row i has one entry for every device of tracker i;
\* so gTrackers[i][j] exists for every tracker i and device j that the loops
\* of samplingLoop come to.
C36_TablesMatch ==
    (mainPc = "idle")
    => /\ Len(gTrackers) = Len(_trackers)
       /\ \A i \in DOMAIN _trackers : gTrackers[i] = _trackers[i].devices
       /\ LET devices == DevicesFrom(_trackers, 1, 1)
          IN  \A k \in DOMAIN devices :
                /\ devices[k].i \in DOMAIN gTrackers
                /\ devices[k].j \in 1..gTrackers[devices[k].i]

C36_Witness ==
    /\ mainPc = "idle"
    /\ returned.fn = "applyTracker"
    /\ Len(_trackers) = MaxTrackers
    /\ \A i \in DOMAIN _trackers : _trackers[i].devices = MaxDevices
    /\ \A i \in DOMAIN gTrackers : gTrackers[i] = MaxDevices


\* The call of startSampling that looks for the head user's device.
StartSamplingLooks ==
    /\ mainPhase = "config" /\ mainPhase' = "running"
    /\ SGCT_HAS_VRPN /\ _trackers # << >>

\* The head user gives a tracker name and a device name, and no registered
\* device has that pair of names.
Unresolved(user) ==
    /\ user.trackerName # "empty" /\ user.deviceName # "empty"
    /\ ~(/\ user.trackerName = "known" /\ user.deviceName = "known"
         /\ _trackers[1].devices > 0)

MaxRenderFrames == 3
MaxDraws == 2
MaxBackground == 2

outsideRender == <<engineVars, codecVars, transferVars, trackingVars,
                   configVars, statVars, jsonVars,
               sensorVars>>

RenderInit ==
    /\ EngineInit /\ CodecOff /\ TransferInit /\ TrackingInit /\ ConfigOff
    /\ StatOff /\ JsonOff /\ SensorOff
    /\ stage = "start"
    /\ frame = 0
    /\ onMaster \in BOOLEAN
    /\ drawsLeft = 0
    /\ calls = << >>
    /\ background = 0

\* The callback fn is called by the thread th.
Called(fn, th) == [fn |-> fn, thread |-> th]

\* Mutant: the next frame begins when postDraw has returned, before the swap.
preSyncEarly ==
    /\ stage \in {"start", "swap", "postDraw"}
    /\ frame < MaxRenderFrames
    /\ stage' = "preSync"
    /\ calls' = <<Called("preSync", "main")>>
    /\ drawsLeft' \in 1..MaxDraws
    /\ UNCHANGED <<frame, onMaster, background>>
    /\ UNCHANGED outsideRender

\* The frame begins: the preSync callback, before the synchronization stage.
\* The frame has one draw call for every viewport and eye.
preSync ==
    /\ stage \in {"start", "swap"}
    /\ frame < MaxRenderFrames
    /\ stage' = "preSync"
    /\ calls' = <<Called("preSync", "main")>>
    /\ drawsLeft' \in 1..MaxDraws
    /\ UNCHANGED <<frame, onMaster, background>>
    /\ UNCHANGED outsideRender

\* The synchronization stage: the master calls encode; a client calls decode
\* with the data of the master, if it came before the timeout.
sync ==
    /\ stage = "preSync"
    /\ stage' = "sync"
    /\ \/ calls' = Append(calls, Called(IF onMaster THEN "encode" ELSE "decode",
                                        "main"))
       \/ ~onMaster /\ calls' = calls
    /\ UNCHANGED <<frame, onMaster, drawsLeft, background>>
    /\ UNCHANGED outsideRender

\* postSyncPreDraw: once per frame after sync but before the draw stage.
postSyncPreDraw ==
    /\ stage = "sync"
    /\ stage' = "postSyncPreDraw"
    /\ calls' = Append(calls, Called("postSyncPreDraw", "main"))
    /\ UNCHANGED <<frame, onMaster, drawsLeft, background>>
    /\ UNCHANGED outsideRender

\* draw: once per viewport and eye.
draw ==
    /\ stage \in {"postSyncPreDraw", "draw"}
    /\ drawsLeft > 0
    /\ drawsLeft' = drawsLeft - 1
    /\ stage' = "draw"
    /\ calls' = Append(calls, Called("draw", "main"))
    /\ UNCHANGED <<frame, onMaster, background>>
    /\ UNCHANGED outsideRender

\* draw2D: after overlays and post effects have been drawn.
draw2D ==
    /\ stage = "draw"
    /\ drawsLeft = 0
    /\ stage' = "draw2D"
    /\ calls' = Append(calls, Called("draw2D", "main"))
    /\ UNCHANGED <<frame, onMaster, drawsLeft, background>>
    /\ UNCHANGED outsideRender

\* postDraw: after the draw stage but before the buffer swap.
postDraw ==
    /\ stage = "draw2D"
    /\ stage' = "postDraw"
    /\ calls' = Append(calls, Called("postDraw", "main"))
    /\ UNCHANGED <<frame, onMaster, drawsLeft, background>>
    /\ UNCHANGED outsideRender

\* The buffer swap ends the frame.
swapBuffers ==
    /\ stage = "postDraw"
    /\ stage' = "swap"
    /\ frame' = frame + 1
    /\ calls' = Append(calls, Called("swap", "main"))
    /\ UNCHANGED <<onMaster, drawsLeft, background>>
    /\ UNCHANGED outsideRender

\* The loader thread or the sampling thread takes a step of its own; it calls
\* none of the callbacks of the frame.
Background ==
    /\ background < MaxBackground
    /\ background' = background + 1
    /\ UNCHANGED <<stage, frame, onMaster, drawsLeft, calls>>
    /\ UNCHANGED outsideRender

RenderNext ==
    \/ preSync
    \/ sync
    \/ postSyncPreDraw
    \/ draw
    \/ draw2D
    \/ postDraw
    \/ swapBuffers
    \/ Background

RenderSpec == RenderInit /\ [][RenderNext]_vars

\* The place of a callback in the order of the frame.
StageRank(fn) ==
    CASE fn = "preSync" -> 1
      [] fn \in {"encode", "decode"} -> 2
      [] fn = "postSyncPreDraw" -> 3
      [] fn = "draw" -> 4
      [] fn = "draw2D" -> 5
      [] fn = "postDraw" -> 6
      [] fn = "swap" -> 7

\* C25: the callbacks of a frame are called in the order preSync, encode or
\* decode, postSyncPreDraw, draw (once or more), draw2D, postDraw, swap, each
\* of them by the main thread; the master encodes and a client decodes; the
\* frame counter advances at the swap only, and the preSync of the next frame
\* is called only after the swap.
C25_StagesInOrder ==
    /\ [](\A i, j \in DOMAIN calls :
            i < j => \/ StageRank(calls[i].fn) < StageRank(calls[j].fn)
                     \/ calls[i].fn = "draw" /\ calls[j].fn = "draw")
    /\ [](\A i \in DOMAIN calls :
            /\ calls[i].thread = "main"
            /\ calls[i].fn = "encode" => onMaster
            /\ calls[i].fn = "decode" => ~onMaster)
    /\ [](calls # << >> => calls[1].fn = "preSync")
    /\ [][frame' # frame
            => /\ frame' = frame + 1
               /\ calls[Len(calls)].fn = "postDraw"
               /\ calls'[Len(calls')].fn = "swap"]_vars
    /\ [][(calls' # calls /\ Len(calls') = 1)
            => (calls = << >> \/ calls[Len(calls)].fn = "swap")]_vars

C25_Witness ==
    /\ frame = MaxRenderFrames
    /\ ~onMaster
    /\ Len(calls) = 8
    /\ calls[2].fn = "decode"
    /\ background > 0


(***************************************************************************)
(* Engine::Statistics: the history arrays of the frame timings.  Frame k   *)
(* is recorded with timings that tell the frames and the arrays apart.     *)
(***************************************************************************)
HistoryLength == 128
MaxRecorded == 130

outsideStat == <<engineVars, codecVars, transferVars, trackingVars,
                 configVars, renderVars, jsonVars,
               sensorVars>>

\* std::array<double, HistoryLength> = {}
EmptyHistory == [i \in 1..HistoryLength |-> 0]

StatInit ==
    /\ EngineInit /\ CodecOff /\ TransferInit /\ TrackingInit /\ ConfigOff
    /\ RenderOff /\ JsonOff /\ SensorOff
    /\ statistics = [frametimes |-> EmptyHistory, drawTimes |-> EmptyHistory,
                     syncTimes |-> EmptyHistory, loopTimeMin |-> EmptyHistory,
                     loopTimeMax |-> EmptyHistory]
    /\ recorded = 0

\* Mutant: the new sample overwrites the newest one; nothing moves back.
PushFrontInPlace(history, value) == [history EXCEPT ![1] = value]

\* The new sample goes to the front of the array, every earlier sample one
\* place back, and the last one is dropped.
PushFront(history, value) ==
    [i \in 1..HistoryLength |-> IF i = 1 THEN value ELSE history[i - 1]]

\* The timings of frame k, one for each array.
Timings(k) ==
    [frametimes |-> k, drawTimes |-> 2 * k, syncTimes |-> 3 * k,
     loopTimeMin |-> 4 * k, loopTimeMax |-> 5 * k]

\* The end of a frame: its timings are recorded in the five arrays.
RecordFrame ==
    /\ recorded < MaxRecorded
    /\ recorded' = recorded + 1
    /\ statistics' =
         [f \in DOMAIN statistics |->
            PushFront(statistics[f], Timings(recorded + 1)[f])]
    /\ UNCHANGED outsideStat

StatNext == RecordFrame

StatSpec == StatInit /\ [][StatNext]_vars

\* C26: every history array has HistoryLength entries; the newest sample is
\* at the front, the earlier ones follow in order of age, the places that no
\* frame has reached are as constructed, and a sample older than
\* HistoryLength frames is gone.
C26_NewestFirst ==
    \A f \in DOMAIN statistics :
        /\ Len(statistics[f]) = HistoryLength
        /\ \A i \in 1..HistoryLength :
             statistics[f][i] =
                IF i <= recorded THEN Timings(recorded - i + 1)[f] ELSE 0

C26_Witness ==
    /\ recorded = HistoryLength + 2
    /\ statistics.frametimes[1] = HistoryLength + 2
    /\ statistics.frametimes[HistoryLength] = 3
    /\ statistics.loopTimeMax[HistoryLength] = 15


(***************************************************************************)
(* The cluster configuration as JSON: serializeConfig writes an object as  *)
(* text, readJsonConfig reads a text (test_config_load_meta.cpp).  A text  *)
(* is the sequence of its tokens: braces, keys and values.                 *)
(***************************************************************************)
outsideJson == <<engineVars, codecVars, transferVars, trackingVars,
                 configVars, renderVars, statVars,
               sensorVars>>

\* The members of config::Meta, in the order of their keys, and the values
\* the tests give them; the empty string is a member that is not set.
MetaKeys == <<"author", "description", "license", "name", "version">>

MetaValues == {"", "abc", "def"}

Metas ==
    [author : MetaValues, description : MetaValues, license : MetaValues,
     name : MetaValues, version : MetaValues]

\* Meta()
EmptyMeta ==
    [author |-> "", description |-> "", license |-> "", name |-> "",
     version |-> ""]

\* The objects of the tests: success, the master's address, the meta section.
Objects == [success : {TRUE}, masterAddress : {"localhost"}, meta : Metas]

\* What readJsonConfig gives for a text it cannot read.
Failed == [success |-> FALSE, masterAddress |-> "", meta |-> EmptyMeta]

\* The members of meta from the i-th on that are set, as keys and values.
RECURSIVE SerializeMeta(_, _)
SerializeMeta(meta, i) ==
    IF i > Len(MetaKeys) THEN << >>
    ELSE (IF meta[MetaKeys[i]] = "" THEN << >>
          ELSE <<MetaKeys[i], meta[MetaKeys[i]]>>)
         \o SerializeMeta(meta, i + 1)

\* Mutant: the version of the meta section is taken for the version of the
\* file format and not written.
serializeConfigNoVersion(object) ==
    <<"{", "masteraddress", object.masterAddress, "meta", "{">>
    \o SerializeMeta([object.meta EXCEPT !.version = ""], 1)
    \o <<"}", "version", "1", "}">>

\* serializeConfig: the keys of an object in alphabetical order.
serializeConfig(object) ==
    <<"{", "masteraddress", object.masterAddress, "meta", "{">>
    \o SerializeMeta(object.meta, 1)
    \o <<"}", "version", "1", "}">>

\* The JSON text of a test for an object with at most one member of meta set.
SetKeys(meta) == {i \in DOMAIN MetaKeys : meta[MetaKeys[i]] # ""}

String(object) ==
    <<"{", "version", "1", "masteraddress", object.masterAddress, "meta", "{">>
    \o SerializeMeta(object.meta, 1)
    \o <<"}", "}">>

\* The meta section from position pos on: keys and values up to the closing
\* brace.  The result is the meta object and the position after the brace, or
\* no success.
RECURSIVE ReadMeta(_, _, _)
ReadMeta(text, pos, meta) ==
    IF pos > Len(text) THEN [ok |-> FALSE, meta |-> meta, pos |-> pos]
    ELSE IF text[pos] = "}" THEN [ok |-> TRUE, meta |-> meta, pos |-> pos + 1]
    ELSE IF text[pos] \in DOMAIN meta /\ pos + 1 <= Len(text)
    THEN ReadMeta(text, pos + 2, [meta EXCEPT ![text[pos]] = text[pos + 1]])
    ELSE [ok |-> FALSE, meta |-> meta, pos |-> pos]

\* The keys of the file from position pos on, in any order, up to the closing
\* brace: the version of the format, the master's address, the meta section.
RECURSIVE ReadCluster(_, _, _)
ReadCluster(text, pos, cluster) ==
    IF pos > Len(text) THEN Failed
    ELSE IF text[pos] = "}"
    THEN (IF pos = Len(text) /\ cluster.masterAddress # ""
          THEN [cluster EXCEPT !.success = TRUE] ELSE Failed)
    ELSE IF pos + 1 > Len(text) THEN Failed
    ELSE IF text[pos] = "version"
    THEN (IF text[pos + 1] = "1" THEN ReadCluster(text, pos + 2, cluster)
                                 ELSE Failed)
    ELSE IF text[pos] = "masteraddress"
    THEN ReadCluster(text, pos + 2,
                     [cluster EXCEPT !.masterAddress = text[pos + 1]])
    ELSE IF text[pos] = "meta" /\ text[pos + 1] = "{"
    THEN LET m == ReadMeta(text, pos + 2, EmptyMeta)
         IN  IF m.ok
             THEN ReadCluster(text, m.pos, [cluster EXCEPT !.meta = m.meta])
             ELSE Failed
    ELSE Failed

readJsonConfig(text) ==
    IF text # << >> /\ text[1] = "{" THEN ReadCluster(text, 2, Failed)
                                     ELSE Failed

JsonInit ==
    /\ EngineInit /\ CodecOff /\ TransferInit /\ TrackingInit /\ ConfigOff
    /\ RenderOff /\ StatOff /\ SensorOff
    /\ jsonPhase = "input"
    /\ jsonObject \in Objects
    /\ jsonText = << >>
    /\ jsonOutput = Failed

\* const std::string str = serializeConfig(Object)
Serialize ==
    /\ jsonPhase = "input"
    /\ jsonText' = serializeConfig(jsonObject)
    /\ jsonPhase' = "str"
    /\ UNCHANGED <<jsonObject, jsonOutput>>
    /\ UNCHANGED outsideJson

\* The test's own text for the object.
TakeString ==
    /\ jsonPhase = "input"
    /\ Cardinality(SetKeys(jsonObject.meta)) <= 1
    /\ jsonText' = String(jsonObject)
    /\ jsonPhase' = "String"
    /\ UNCHANGED <<jsonObject, jsonOutput>>
    /\ UNCHANGED outsideJson

\* res = readJsonConfig(String); output = readJsonConfig(str)
Read ==
    /\ jsonPhase \in {"str", "String"}
    /\ jsonOutput' = readJsonConfig(jsonText)
    /\ jsonPhase' = IF jsonPhase = "str" THEN "output" ELSE "res"
    /\ UNCHANGED <<jsonObject, jsonText>>
    /\ UNCHANGED outsideJson

JsonNext == Serialize \/ TakeString \/ Read

JsonSpec == JsonInit /\ [][JsonNext]_vars

\* C27: for every object of the tests' kind, whatever members of its meta
\* section are set, reading the text that serializeConfig writes gives the
\* object back; and reading the JSON text of the object (for at most one
\* member set) gives the object, with success.
C27_ConfigRoundTrip ==
    /\ jsonPhase = "output" => jsonOutput = jsonObject
    /\ jsonPhase = "res" => (jsonOutput = jsonObject /\ jsonOutput.success)

C27_Witness ==
    /\ jsonPhase = "output"
    /\ jsonObject.meta.version = "abc"
    /\ jsonObject.meta.author = ""
    /\ jsonOutput.meta.version = "abc"
    /\ Len(jsonText) = 11


(***************************************************************************)
(* The sensors of the tracking manager: addSensorToCurrentDevice connects  *)
(* the last device of the last tracker to the sensor of an address, and    *)
(* the pose updates of a connection reach updateTracker.                   *)
(***************************************************************************)
outsideSensor == <<engineVars, codecVars, transferVars, trackingVars,
                   configVars, renderVars, statVars, jsonVars>>

MaxSensorTrackers == 2
MaxSensorDevices == 2
MaxPoses == 2

\* The addresses of the sensor servers and the sensor ids they report.
Addresses == {"Tracker0@host", "Tracker1@host"}

SensorIds == 0..1

\* A device that no sensor id was set for.
NoSensor == -1

\* A device as addDeviceToCurrentTracker makes it: no sensor id, and a
\* VRPNPointer whose sensorDevice is null.
NewDevice ==
    [sensorId |-> NoSensor, address |-> "none", sensorDevice |-> "none",
     pose |-> 0]

SensorInit ==
    /\ EngineInit /\ CodecOff /\ TransferInit /\ TrackingInit /\ ConfigOff
    /\ RenderOff /\ StatOff /\ JsonOff
    /\ SensorOff

\* addTracker: a tracker without devices.
SensorAddTracker ==
    /\ Len(sensorTable) < MaxSensorTrackers
    /\ sensorTable' = Append(sensorTable, << >>)
    /\ UNCHANGED <<_addresses, lastPose>>
    /\ UNCHANGED outsideSensor

\* addDeviceToCurrentTracker: a device of the last tracker.
SensorAddDevice ==
    /\ sensorTable # << >>
    /\ Len(sensorTable[Len(sensorTable)]) < MaxSensorDevices
    /\ sensorTable' = [sensorTable EXCEPT ![Len(sensorTable)] =
                           Append(@, NewDevice)]
    /\ UNCHANGED <<_addresses, lastPose>>
    /\ UNCHANGED outsideSensor

\* TrackingManager::addSensorToCurrentDevice: nothing without a device; else
\* the address is inserted into _addresses, the last device of the last
\* tracker gets the sensor id, and only if the address was not in the set and
\* the device has no sensor connection yet, a connection to the address is
\* made, its change handler registered with the last tracker as userdata.
addSensorToCurrentDevice(address, id) ==
    /\ IF sensorTable = << >> \/ sensorTable[Len(sensorTable)] = << >>
       THEN UNCHANGED <<sensorTable, _addresses>>
       ELSE LET i == Len(sensorTable)
                j == Len(sensorTable[i])
                inserted == address \notin _addresses
            IN  /\ _addresses' = _addresses \cup {address}
                /\ sensorTable' = [sensorTable EXCEPT ![i][j] =
                       [@ EXCEPT !.sensorId = id, !.address = address,
                                 !.sensorDevice =
                                     IF inserted /\ @ = "none" THEN address
                                                               ELSE @]]
    /\ UNCHANGED lastPose
    /\ UNCHANGED outsideSensor

\* Tracker::deviceBySensorId: the index of the first device of the tracker
\* that has the sensor id, 0 for none.
deviceBySensorId(devices, id) ==
    LET having == {j \in DOMAIN devices : devices[j].sensorId = id}
    IN  IF having = {} THEN 0
        ELSE CHOOSE j \in having : \A k \in having : j <= k

\* samplingLoop: ptr.sensorDevice->mainloop() of device j of tracker i; the
\* connection reports a pose of sensor id, and updateTracker, whose userdata
\* is the tracker the handler was registered with, gives it to the device of
\* that tracker that has the sensor id, if there is one.
mainloop(i, j, id) ==
    /\ lastPose.n < MaxPoses
    /\ sensorTable[i][j].sensorDevice # "none"
    /\ lastPose' = [address |-> sensorTable[i][j].sensorDevice, sensor |-> id,
                    n |-> lastPose.n + 1]
    /\ LET device == deviceBySensorId(sensorTable[i], id)
       IN  IF device = 0
           THEN UNCHANGED sensorTable
           ELSE sensorTable' =
                    [sensorTable EXCEPT ![i][device].pose = lastPose.n + 1]
    /\ UNCHANGED _addresses
    /\ UNCHANGED outsideSensor

SensorNext ==
    \/ SensorAddTracker
    \/ SensorAddDevice
    \/ \E address \in Addresses, id \in SensorIds :
           addSensorToCurrentDevice(address, id)
    \/ \E i \in DOMAIN sensorTable :
           \E j \in DOMAIN sensorTable[i], id \in SensorIds : mainloop(i, j, id)

SensorSpec == SensorInit /\ [][SensorNext]_vars

\* The devices, as pairs of the index of the tracker and that of the device.
SensorDevices ==
    {d \in (1..MaxSensorTrackers + 1) \X (1..MaxSensorDevices + 1) :
        d[1] \in DOMAIN sensorTable /\ d[2] \in DOMAIN sensorTable[d[1]]}

Connected(table) ==
    {d \in SensorDevices : d[1] \in DOMAIN table /\ d[2] \in DOMAIN table[d[1]]
                           /\ table[d[1]][d[2]].sensorDevice # "none"}

\* No two sensor connections have the same address, every connection's
\* address is in _addresses, and a call that gives an address that is in
\* _addresses already sets the sensor id of the last device and makes no
\* connection.
OneConnectionPerAddress ==
    /\ [](\A d, e \in Connected(sensorTable) :
            sensorTable[d[1]][d[2]].sensorDevice
                = sensorTable[e[1]][e[2]].sensorDevice => d = e)
    /\ [](\A d \in Connected(sensorTable) :
            sensorTable[d[1]][d[2]].sensorDevice \in _addresses)
    /\ [][\A address \in _addresses :
            (/\ lastPose' = lastPose
             /\ sensorTable' # sensorTable
             /\ Len(sensorTable') = Len(sensorTable)
             /\ Len(sensorTable'[Len(sensorTable)])
                    = Len(sensorTable[Len(sensorTable)])
             /\ sensorTable'[Len(sensorTable)][Len(sensorTable[Len(sensorTable)])]
                    .address = address)
              => Connected(sensorTable') = Connected(sensorTable)]_vars

\* A sensor with an address registered before was given to a second device.
OneConnectionWitness ==
    \E d \in SensorDevices \ Connected(sensorTable) :
        /\ sensorTable[d[1]][d[2]].sensorId # NoSensor
        /\ \E e \in Connected(sensorTable) :
               sensorTable[e[1]][e[2]].sensorDevice
                   = sensorTable[d[1]][d[2]].address

\* Every device whose sensor is the one that reported the last pose has
\* received that pose.
AllReceive ==
    [][lastPose'.n # lastPose.n
         => \A d \in SensorDevices :
              (/\ sensorTable'[d[1]][d[2]].address = lastPose'.address
               /\ sensorTable'[d[1]][d[2]].sensorId = lastPose'.sensor)
                => sensorTable'[d[1]][d[2]].pose = lastPose'.n]_vars

\* C39: at most one sensor connection is made per sensor address, a call of
\* addSensorToCurrentDevice with an address registered before sets the sensor
\* id and makes no connection, and every device with a sensor id receives the
\* pose updates of its sensor.
C39_OneConnectionAllReceive == OneConnectionPerAddress /\ AllReceive

====
